---- MODULE Spec2Model ----
(***************************************************************************)
(* Model of the py_load_uniprot pipeline driver (core.py) and of the       *)
(* PostgreSQL loader (db_manager.py): staging load, full-load schema swap, *)
(* delta merge, metadata and run history.                                  *)
(*                                                                         *)
(* The database is modelled as its committed state `db` plus the working   *)
(* copy `tx` of the one transaction that spans several statements of a     *)
(* finalize.  Every other loader operation is one transaction and is one   *)
(* action.                                                                 *)
(***************************************************************************)
EXTENDS Integers, Sequences, FiniteSets, TLC

(* ---------------------------------------------------------------------- *)
(* Bounds                                                                  *)
(* ---------------------------------------------------------------------- *)
MaxRuns == 2
MaxFaults == 1

(* ---------------------------------------------------------------------- *)
(* Source data                                                             *)
(* ---------------------------------------------------------------------- *)
Acc == {"A1", "A2"}

OtherAcc(a) == Acc \ {a}

\* The <entry> elements an accession can have in a source file.  Both have
\* a first revision.  A1 also has a revision that changes every non-key
\* value, keeps the organism and has no <sequence>; A2 also has a revision
\* that changes the organism too and lists A1 as its secondary accession
\* (the entry of A1 merged into A2).
EntryVariants(a) ==
    { [acc |-> a, rev |-> 1, taxid |-> 1, sec |-> {}, hasSeq |-> TRUE] }
    \cup
    ( IF a = "A1"
      THEN { [acc |-> a, rev |-> 2, taxid |-> 1, sec |-> {}, hasSeq |-> FALSE] }
      ELSE { [acc |-> a, rev |-> 2, taxid |-> 2, sec |-> OtherAcc(a), hasSeq |-> TRUE] } )

Entries == UNION { EntryVariants(a) : a \in Acc }

RECURSIVE SeqsOver(_)
\* every ordering of the elements of a finite set, as sequences
SeqsOver(S) ==
    IF S = {} THEN { <<>> }
    ELSE UNION { { <<x>> \o s : s \in SeqsOver(S \ {x}) } : x \in S }

\* A Swiss-Prot source file: at most one entry per accession, in file order.
SprotSources ==
    UNION { SeqsOver(es) :
              es \in { s \in SUBSET Entries :
                         \A e1, e2 \in s : e1.acc = e2.acc => e1 = e2 } }

\* A TrEMBL source file: one entry, which a Swiss-Prot file may also hold.
TremblSources ==
    { << [acc |-> "A2", rev |-> 1, taxid |-> 1, sec |-> {}, hasSeq |-> TRUE] >> }

(* ---------------------------------------------------------------------- *)
(* Release versions: strings, compared as Python compares str             *)
(* ---------------------------------------------------------------------- *)
NoVersion == <<>>
Versions == { NoVersion, <<2>>, <<1, 0>> }

RECURSIVE LexLess(_, _)
LexLess(a, b) ==
    IF b = <<>> THEN FALSE
    ELSE IF a = <<>> THEN TRUE
    ELSE IF Head(a) # Head(b) THEN Head(a) < Head(b)
    ELSE LexLess(Tail(a), Tail(b))

Truthy(v) == v # NoVersion

(* ---------------------------------------------------------------------- *)
(* Tables                                                                  *)
(* ---------------------------------------------------------------------- *)
TABLE_LOAD_ORDER ==
    << "taxonomy", "proteins", "sequences", "accessions", "genes",
       "keywords", "protein_to_go", "protein_to_taxonomy" >>

TABLE_HEADERS ==
    { "proteins", "sequences", "accessions", "taxonomy", "genes",
      "protein_to_go", "keywords" }

TABLES_WITH_UNIQUE_CONSTRAINTS == { "taxonomy" }

(* ---------------------------------------------------------------------- *)
(* Transformer output for one entry (transformer.py, _parse_entry)         *)
(* ---------------------------------------------------------------------- *)
ProteinRow(e) ==
    [ primary_accession  |-> e.acc,
      uniprot_id         |-> e.rev,
      ncbi_taxid         |-> e.taxid,
      sequence_length    |-> e.rev,
      molecular_weight   |-> e.rev,
      created_date       |-> e.rev,
      modified_date      |-> e.rev,
      comments_data      |-> e.rev,
      features_data      |-> e.rev,
      db_references_data |-> e.rev,
      evidence_data      |-> e.rev ]

\* the rows of one table that one entry yields, in document order
_parse_entry(e, table) ==
    CASE table = "proteins"  -> << ProteinRow(e) >>
      [] table = "sequences" ->
            IF e.hasSeq
            THEN << [primary_accession |-> e.acc, sequence |-> e.rev] >>
            ELSE << >>
      [] table = "accessions" ->
            LET ss == CHOOSE q \in SeqsOver(e.sec) : TRUE
            IN  [ i \in 1..Len(ss) |->
                    [protein_accession |-> e.acc, secondary_accession |-> ss[i]] ]
      [] table = "taxonomy" ->
            << [ncbi_taxid |-> e.taxid, scientific_name |-> e.rev, lineage |-> e.rev] >>
      [] table = "genes" ->
            \* rev 1 names the gene as primary, rev 2 as a synonym
            << [protein_accession |-> e.acc, gene_name |-> "G",
                is_primary |-> (e.rev = 1)] >>
      [] table = "protein_to_go" ->
            << [protein_accession |-> e.acc, go_term_id |-> e.rev] >>
      [] table = "keywords" ->
            << [protein_accession |-> e.acc, keyword_id |-> "K",
                keyword_label |-> e.rev] >>

RECURSIVE WriteRowsNoDedup(_, _, _)
\* a writer that keeps no set of seen taxonomy ids
WriteRowsNoDedup(rs, table, seen) ==
    IF rs = <<>> THEN <<>>
    ELSE _parse_entry(Head(rs), table) \o WriteRowsNoDedup(Tail(rs), table, seen)

RECURSIVE WriteRows(_, _, _)
\* the data rows the writer appends to one table's file for the results
\* `rs`, having already seen the taxonomy ids `seen`
WriteRows(rs, table, seen) ==
    IF rs = <<>> THEN <<>>
    ELSE LET rows == _parse_entry(Head(rs), table)
             keep == IF table = "taxonomy"
                     THEN SelectSeq(rows, LAMBDA r : r.ncbi_taxid \notin seen)
                     ELSE rows
             seen2 == IF table = "taxonomy"
                      THEN seen \cup { rows[i].ncbi_taxid : i \in 1..Len(rows) }
                      ELSE seen
         IN  keep \o WriteRows(Tail(rs), table, seen2)

NoDir == [exists |-> FALSE, files |-> <<>>]

\* transform_xml_to_tsv: no file at all for a source without entries,
\* otherwise one file per table of TABLE_HEADERS
transform_xml_to_tsv(source) ==
    IF Len(source) = 0
    THEN [exists |-> TRUE, files |-> <<>>]
    ELSE [exists |-> TRUE,
          files  |-> [ t \in TABLE_HEADERS |-> WriteRows(source, t, {}) ]]

(* ---------------------------------------------------------------------- *)
(* Database: schemas and tables                                            *)
(* ---------------------------------------------------------------------- *)
SetTables ==
    { "proteins", "sequences", "accessions", "genes", "keywords",
      "protein_to_go", "protein_to_taxonomy" }

ChildTables ==
    << "accessions", "genes", "keywords", "protein_to_go", "protein_to_taxonomy" >>

EmptyTables ==
    [ proteins |-> {}, sequences |-> {}, accessions |-> {}, taxonomy |-> <<>>,
      genes |-> {}, keywords |-> {}, protein_to_go |-> {},
      protein_to_taxonomy |-> {} ]

\* a schema name that resolves to nothing
NoSchema ==
    [ exists |-> FALSE, tables |-> EmptyTables, indexed |-> FALSE,
      hasMeta |-> FALSE, metadata |-> <<>>, history |-> <<>> ]

\* primary key of a row
Key(table, r) ==
    CASE table = "proteins"      -> r.primary_accession
      [] table = "sequences"     -> r.primary_accession
      [] table = "taxonomy"      -> r.ncbi_taxid
      [] table = "accessions"    -> << r.protein_accession, r.secondary_accession >>
      [] table = "genes"         -> << r.protein_accession, r.gene_name >>
      [] table = "keywords"      -> << r.protein_accession, r.keyword_id >>
      [] table = "protein_to_go" -> << r.protein_accession, r.go_term_id >>
      [] table = "protein_to_taxonomy" -> << r.protein_accession, r.ncbi_taxid >>

\* the protein a row belongs to
Owner(table, r) ==
    IF table \in {"proteins", "sequences"} THEN r.primary_accession
    ELSE r.protein_accession

Range(q) == { q[i] : i \in 1..Len(q) }

PrimaryAccessions(schema) ==
    { r.primary_accession : r \in schema.tables.proteins }

\* create_schema.sql: creates the schema and its tables where absent
_get_schema_ddl(schema) ==
    IF schema.exists THEN [schema EXCEPT !.hasMeta = TRUE]
    ELSE [NoSchema EXCEPT !.exists = TRUE, !.hasMeta = TRUE]

\* create_metadata_tables.sql: metadata and load_history, where absent
_create_metadata_tables(schema) == [schema EXCEPT !.hasMeta = TRUE]

\* CREATE SCHEMA IF NOT EXISTS, the table DDL, the metadata tables
_create_production_schema_if_not_exists(d) ==
    [d EXCEPT !.production = _create_metadata_tables(_get_schema_ddl(@))]

\* DROP SCHEMA IF EXISTS staging CASCADE; then the DDL
initialize_schema(d) == [d EXCEPT !.staging = _get_schema_ddl(NoSchema)]

\* COPY succeeds when the target exists, no primary key is repeated and
\* every child row has its protein
CopyOk(d, table, rows) ==
    /\ d.staging.exists
    /\ table \in SetTables =>
         LET old == d.staging.tables[table]
         IN  /\ \A i, j \in 1..Len(rows) :
                   Key(table, rows[i]) = Key(table, rows[j]) => i = j
             /\ \A i \in 1..Len(rows) : \A o \in old :
                   Key(table, o) # Key(table, rows[i])
             /\ table # "proteins" =>
                   \A i \in 1..Len(rows) :
                       Owner(table, rows[i]) \in PrimaryAccessions(d.staging)

_direct_copy_load(d, table, rows) ==
    [d EXCEPT !.staging.tables[table] =
        IF table = "taxonomy" THEN @ \o rows ELSE @ \cup Range(rows)]

RECURSIVE KeepLast(_, _)
\* a de-duplication that keeps the physically last row of a key
KeepLast(q, seen) ==
    IF q = <<>> THEN <<>>
    ELSE IF \E i \in 2..Len(q) : q[i].ncbi_taxid = Head(q).ncbi_taxid
         THEN KeepLast(Tail(q), seen)
    ELSE <<Head(q)>> \o KeepLast(Tail(q), seen)

RECURSIVE KeepFirst(_, _)
\* the rows of q whose key does not occur earlier in q
KeepFirst(q, seen) ==
    IF q = <<>> THEN <<>>
    ELSE IF Head(q).ncbi_taxid \in seen THEN KeepFirst(Tail(q), seen)
    ELSE <<Head(q)>> \o KeepFirst(Tail(q), seen \cup {Head(q).ncbi_taxid})

deduplicate_staging_data(d, table) ==
    [d EXCEPT !.staging.tables[table] = KeepFirst(@, {})]

(* ---------------------------------------------------------------------- *)
(* Delta merge statements (db_manager.py, _execute_delta_update)           *)
(* ---------------------------------------------------------------------- *)
\* ON CONFLICT (primary_accession) DO UPDATE SET ... of _upsert_proteins
ProteinConflictUpdate(old, new) ==
    [ old EXCEPT !.uniprot_id         = new.uniprot_id,
                 !.sequence_length    = new.sequence_length,
                 !.molecular_weight   = new.molecular_weight,
                 !.modified_date      = new.modified_date,
                 !.comments_data      = new.comments_data,
                 !.features_data      = new.features_data,
                 !.db_references_data = new.db_references_data,
                 !.evidence_data      = new.evidence_data ]

\* a delta merge whose protein upsert has not run when the syncs start
_upsert_proteins_deferred(d) == d

_upsert_proteins(d) ==
    LET stage == d.staging.tables.proteins
        prod  == d.production.tables.proteins
        hit(o) == { n \in stage : n.primary_accession = o.primary_accession }
    IN  [d EXCEPT !.production.tables.proteins =
            { IF hit(o) = {} THEN o
              ELSE ProteinConflictUpdate(o, CHOOSE n \in hit(o) : TRUE) : o \in prod }
            \cup { n \in stage : \A o \in prod :
                                   o.primary_accession # n.primary_accession }]

_upsert_sequences(d) ==
    LET stage == d.staging.tables.sequences
        prod  == d.production.tables.sequences
        hit(o) == { n \in stage : n.primary_accession = o.primary_accession }
    IN  [d EXCEPT !.production.tables.sequences =
            { IF hit(o) = {} THEN o
              ELSE [o EXCEPT !.sequence = (CHOOSE n \in hit(o) : TRUE).sequence]
              : o \in prod }
            \cup { n \in stage : \A o \in prod :
                                   o.primary_accession # n.primary_accession }]

_upsert_taxonomy(d) ==
    LET stage == d.staging.tables.taxonomy
        prod  == d.production.tables.taxonomy
        hit(o) == { i \in 1..Len(stage) : stage[i].ncbi_taxid = o.ncbi_taxid }
        upd == [ i \in 1..Len(prod) |->
                   IF hit(prod[i]) = {} THEN prod[i]
                   ELSE LET n == stage[CHOOSE k \in hit(prod[i]) : TRUE]
                        IN  [prod[i] EXCEPT !.scientific_name = n.scientific_name,
                                            !.lineage = n.lineage] ]
        new == SelectSeq(stage, LAMBDA n :
                   \A i \in 1..Len(prod) : prod[i].ncbi_taxid # n.ncbi_taxid)
    IN  [d EXCEPT !.production.tables.taxonomy = upd \o new]

\* DELETE the production rows of staged proteins whose key is not staged,
\* then INSERT ... ON CONFLICT (key) DO NOTHING
_sync_child_table(d, table) ==
    LET stage  == d.staging.tables[table]
        prod   == d.production.tables[table]
        staged == PrimaryAccessions(d.staging)
        kept   == { o \in prod :
                      ~ ( /\ Owner(table, o) \in staged
                          /\ \A n \in stage : Key(table, n) # Key(table, o) ) }
        added  == { n \in stage : \A o \in kept : Key(table, o) # Key(table, n) }
    IN  [d EXCEPT !.production.tables[table] = kept \cup added]

\* DELETE FROM proteins WHERE primary_accession = ANY(gone); the foreign keys
\* of the schema DDL are ON DELETE CASCADE, so the rows that reference a
\* deleted protein go with it
DeleteProteins(tables, gone) ==
    [ t \in DOMAIN tables |->
        IF t = "taxonomy" THEN tables[t]
        ELSE { r \in tables[t] : Owner(t, r) \notin gone } ]

\* tombstone deletion that removes the proteins rows only
_delete_removed_proteins_no_cascade(d) ==
    LET gone == PrimaryAccessions(d.production) \ PrimaryAccessions(d.staging)
    IN  [d EXCEPT !.production.tables.proteins =
            { r \in @ : r.primary_accession \notin gone }]

\* tombstone deletion that spares an accession staging lists as secondary
_delete_removed_proteins_spares_merged(d) ==
    LET merged == { r.secondary_accession : r \in d.staging.tables.accessions }
        gone == (PrimaryAccessions(d.production) \ PrimaryAccessions(d.staging))
                \ merged
    IN  [d EXCEPT !.production.tables = DeleteProteins(@, gone)]

\* tombstone deletion that does nothing when staging holds no protein
_delete_removed_proteins_unless_empty(d) ==
    LET gone == PrimaryAccessions(d.production) \ PrimaryAccessions(d.staging)
    IN  IF PrimaryAccessions(d.staging) = {} THEN d
        ELSE [d EXCEPT !.production.tables = DeleteProteins(@, gone)]

\* the production accessions absent from staging are selected and deleted
\* (the function returns early when there is none)
_delete_removed_proteins(d) ==
    LET gone == PrimaryAccessions(d.production) \ PrimaryAccessions(d.staging)
    IN  [d EXCEPT !.production.tables = DeleteProteins(@, gone)]

(* ---------------------------------------------------------------------- *)
(* Loader operations on the metadata tables                                *)
(* ---------------------------------------------------------------------- *)
\* SELECT version ... ORDER BY load_timestamp DESC LIMIT 1; None when the
\* table is absent (UndefinedTable) or empty
get_current_release_version(d) ==
    IF d.production.exists /\ d.production.hasMeta
       /\ Len(d.production.metadata) > 0
    THEN d.production.metadata[Len(d.production.metadata)].version
    ELSE NoVersion

\* release_info['version'] must be present; the metadata tables are created
\* inside the production schema, which must exist
UpdateMetadataOk(d, info) == Truthy(info.version) /\ d.production.exists

\* an update that inserts the release without the TRUNCATE
update_metadata_appends(d, info) ==
    [d EXCEPT !.production =
        [_create_metadata_tables(@) EXCEPT
            !.metadata = Append(@, [version |-> info.version])]]

\* TRUNCATE the metadata table, INSERT the release
update_metadata(d, info) ==
    [d EXCEPT !.production =
        [_create_metadata_tables(@) EXCEPT !.metadata = << [version |-> info.version] >>]]

\* one row appended to production.load_history, the schema and the tables
\* being created first where absent
log_run(d, row) ==
    LET e == _create_production_schema_if_not_exists(d)
    IN  [e EXCEPT !.production.history = Append(@, row)]

(* ---------------------------------------------------------------------- *)
(* State                                                                   *)
(* ---------------------------------------------------------------------- *)
VARIABLES
    db,          \* committed database: staging, production, archives
    tx,          \* the open multi-statement transaction of a finalize
    pc,          \* position of PyLoadUniprotPipeline.run
    mode,        \* argument of run
    dataset,     \* argument of run
    release_info,\* what the extractor returned to this run
    todo,        \* datasets_to_process not yet processed
    tbl,         \* index into TABLE_LOAD_ORDER / ChildTables of the next step
    scratch,     \* temp_dir of the dataset being processed
    pre,         \* database as it was when run was called
    calls,       \* loader operations called by this run, in order
    err,         \* the exception caught by run's except clause
    propagated,  \* the exception run raises to its caller
    run_id,      \* number of runs started
    faults,      \* backend faults injected so far
    repeat       \* the command and the files of a caller who repeats a run

\* the state of one call of transform_xml_to_tsv (transformer.py 299-373)
VARIABLES
    xml_file,      \* the <entry> elements of the source file, in file order
    num_workers,   \* size of the worker pool
    total_entries, \* what _get_total_entries counted
    tasks_queue,   \* manager.Queue(maxsize = num_workers * 4)
    results_queue, \* manager.Queue()
    producer,      \* the main process: position and next entry
    pool,          \* multiprocessing.Pool: its state and its worker processes
    writer,        \* the writer process
    loaded         \* the driver has bulk-loaded the files of this transform

\* the state of one call of _parse_entry (transformer.py 95-215) whose rows
\* are then copied into staging
VARIABLES
    elem,          \* the <entry> element
    data           \* the rows extracted from it, and how their COPY went

evars == << elem, data >>

pvars == << db, tx, pc, mode, dataset, release_info, todo, tbl, scratch,
            pre, calls, err, propagated, run_id, faults, repeat, elem, data >>

tvars == << xml_file, num_workers, total_entries, tasks_queue, results_queue,
            producer, pool, writer, loaded >>

vars == << db, tx, pc, mode, dataset, release_info, todo, tbl, scratch,
           pre, calls, err, propagated, run_id, faults, repeat,
           xml_file, num_workers, total_entries, tasks_queue, results_queue,
           producer, pool, writer, loaded, elem, data >>

EmptyDb == [staging |-> NoSchema, production |-> NoSchema, archives |-> <<>>]

NoTx == [active |-> FALSE, d |-> EmptyDb]

Missing == [present |-> FALSE, entries |-> <<>>]

NoError == "none"

Modes == {"full", "delta", "invalid"}
Datasets == {"swissprot", "trembl", "all", "invalid"}

\* the source files a run can find, by accession order
SourceFiles(sources) == { Missing } \cup { [present |-> TRUE, entries |-> s] : s \in sources }

SortedSprotSources ==
    { s \in SprotSources : \A i, j \in 1..Len(s) : i < j => s[i].acc # "A2" }

MaxWorkers == 2

WorkerIds == 1..MaxWorkers

NoItem == [kind |-> "none", e |-> CHOOSE e \in Entries : e.acc = "A1" /\ e.rev = 1]

NoProducer == [pc |-> "idle", i |-> 1, sentinels |-> 0]

NoPool == [state |-> "RUN",
           workers |-> [w \in WorkerIds |-> [st |-> "absent", item |-> NoItem]]]

NoWriter == [pc |-> "absent", processed_count |-> 0, written |-> <<>>,
             error |-> NoError]

\* the variables of the transformer while no transform is being observed
NoElem == [accession |-> <<>>, gene |-> <<>>, go |-> <<>>, keyword |-> <<>>]

NoData == [state |-> "none", tables |-> <<>>, next |-> 1]

\* no entry is being parsed
ParserIdle == elem = NoElem /\ data = NoData

TransformerIdle ==
    /\ xml_file = <<>>
    /\ num_workers = 1
    /\ total_entries = 0
    /\ tasks_queue = <<>>
    /\ results_queue = <<>>
    /\ producer = NoProducer
    /\ pool = NoPool
    /\ writer = NoWriter
    /\ loaded = FALSE

\* a database without schemas and a pipeline that has not run
PipelineInit ==
    /\ db = EmptyDb
    /\ tx = NoTx
    /\ pc = "idle"
    /\ mode = "full"
    /\ dataset = "swissprot"
    /\ release_info = [version |-> NoVersion]
    /\ todo = <<>>
    /\ tbl = 1
    /\ scratch = NoDir
    /\ pre = EmptyDb
    /\ calls = <<>>
    /\ err = NoError
    /\ propagated = NoError
    /\ run_id = 0
    /\ faults = 0

\* run is called with any arguments and finds any files in data_dir
NoRepeat ==
    [ on |-> FALSE, mode |-> "full", dataset |-> "swissprot",
      files |-> [swissprot |-> Missing, trembl |-> Missing] ]

Init == PipelineInit /\ TransformerIdle /\ ParserIdle /\ repeat = NoRepeat

\* a backend fault (connection lost, disk full, ...) may hit any statement
Fault(fail) ==
    /\ fail => faults < MaxFaults
    /\ faults' = IF fail THEN faults + 1 ELSE faults

Called(op, arg, ok) ==
    calls' = Append(calls, [op |-> op, arg |-> arg, ok |-> ok, msg |-> NoError])

Raise(e) == pc' = "except" /\ err' = e

(* ---------------------------------------------------------------------- *)
(* PyLoadUniprotPipeline.run (core.py)                                     *)
(* ---------------------------------------------------------------------- *)
\* the driver with finalize left out: metadata is updated right after the loads
StepAfterSkipsFinalize(step, m) ==
    CASE step = "get_release_info"  ->
            IF m = "delta" THEN "version_check" ELSE "initialize_schema"
      [] step = "version_check"     -> "initialize_schema"
      [] step = "initialize_schema" -> "transform"
      [] step = "transform"         -> "update_metadata"
      [] step = "deduplicate"       ->
            IF m = "full" THEN "full_indexes" ELSE "delta_ensure"
      [] step = "finalize_load"     -> "update_metadata"
      [] step = "update_metadata"   -> "log_completed"
      [] step = "log_completed"     -> "finally"

\* core.py 119-149: the step that follows a step that completed
StepAfter(step, m) ==
    CASE step = "get_release_info"  ->
            IF m = "delta" THEN "version_check" ELSE "initialize_schema"
      [] step = "version_check"     -> "initialize_schema"
      [] step = "initialize_schema" -> "transform"
      [] step = "transform"         -> "deduplicate"
      [] step = "deduplicate"       ->
            IF m = "full" THEN "full_indexes" ELSE "delta_ensure"
      [] step = "finalize_load"     -> "update_metadata"
      [] step = "update_metadata"   -> "log_completed"
      [] step = "log_completed"     -> "finally"

\* the version check without its "older" branch
version_decision_equal_only(current_db_version, new_version) ==
    IF Truthy(current_db_version) /\ Truthy(new_version)
       /\ current_db_version = new_version
    THEN "return"
    ELSE "proceed"

\* core.py 99-115: the outcome of the delta version check
version_decision(current_db_version, new_version) ==
    IF Truthy(current_db_version) /\ Truthy(new_version)
    THEN IF current_db_version = new_version THEN "return"
         ELSE IF LexLess(new_version, current_db_version) THEN "raise"
         ELSE "proceed"
    ELSE "proceed"

\* run(dataset, mode) is called
StartRun ==
    /\ pc = "idle"
    /\ run_id < MaxRuns
    /\ \E m \in Modes, ds \in Datasets :
          /\ m = "invalid" => ds = "swissprot"
          /\ repeat.on => m = repeat.mode /\ ds = repeat.dataset
          /\ mode' = m
          /\ dataset' = ds
    /\ run_id' = run_id + 1
    /\ pre' = db
    /\ calls' = <<>>
    /\ err' = NoError
    /\ propagated' = NoError
    /\ pc' = "validate"
    /\ UNCHANGED << db, tx, release_info, todo, tbl, scratch, faults >>
    /\ UNCHANGED << repeat, evars, tvars >>

\* core.py 78-91
Validate ==
    /\ pc = "validate"
    /\ IF mode \notin {"full", "delta"} THEN Raise("ValueError_mode") /\ todo' = todo
       ELSE IF dataset \notin {"swissprot", "trembl", "all"}
            THEN Raise("ValueError_dataset") /\ todo' = todo
       ELSE /\ todo' = IF dataset = "all" THEN << "swissprot", "trembl" >>
                       ELSE << dataset >>
            /\ pc' = "get_release_info"
            /\ err' = err
    /\ UNCHANGED << db, tx, mode, dataset, release_info, tbl, scratch,
                    pre, calls, propagated, run_id, faults >>
    /\ UNCHANGED << repeat, evars, tvars >>

\* core.py 95-96: the extractor fetches the release notes of the release
\* that is current on the server
GetReleaseInfo ==
    /\ pc = "get_release_info"
    /\ \E fail \in BOOLEAN, v \in Versions :
          /\ Fault(fail)
          /\ IF fail THEN /\ Raise("RequestException")
                          /\ v = NoVersion
                          /\ release_info' = release_info
             ELSE /\ pc' = StepAfter("get_release_info", mode)
                  /\ err' = err
                  /\ release_info' = [version |-> v]
    /\ UNCHANGED << db, tx, mode, dataset, todo, tbl,
                    scratch, pre, calls, propagated, run_id >>
    /\ UNCHANGED << repeat, evars, tvars >>

\* core.py 98-115
VersionCheck ==
    /\ pc = "version_check"
    /\ \E fail \in BOOLEAN :
          /\ Fault(fail)
          /\ LET decision == version_decision(get_current_release_version(db),
                                               release_info.version)
             IN  IF fail THEN Raise("OperationalError")
                 ELSE IF decision = "return" THEN pc' = "finally" /\ err' = err
                 ELSE IF decision = "raise" THEN Raise("ValueError_older")
                 ELSE pc' = StepAfter("version_check", mode) /\ err' = err
    /\ UNCHANGED << db, tx, mode, dataset, release_info, todo, tbl,
                    scratch, pre, calls, propagated, run_id >>
    /\ UNCHANGED << repeat, evars, tvars >>

\* core.py 121
InitializeSchema ==
    /\ pc = "initialize_schema"
    /\ \E fail \in BOOLEAN :
          /\ Fault(fail)
          /\ Called("initialize_schema", mode, ~fail)
          /\ IF fail THEN Raise("initialize_schema") /\ db' = db
             ELSE /\ db' = initialize_schema(db)
                  /\ pc' = StepAfter("initialize_schema", mode)
                  /\ err' = err
    /\ UNCHANGED << tx, mode, dataset, release_info, todo, tbl, scratch,
                    pre, propagated, run_id >>
    /\ UNCHANGED << repeat, evars, tvars >>

\* the source files data_dir can hold for a dataset
FilesOf(ds) ==
    IF ds = "swissprot" THEN SourceFiles(SortedSprotSources)
    ELSE SourceFiles(TremblSources)

\* core.py 125-126 and 173-202: the next dataset, its source file, the transform
Transform ==
    /\ pc = "transform"
    /\ IF todo = <<>>
       THEN /\ pc' = StepAfter("transform", mode)
            /\ UNCHANGED << err, scratch, faults, tbl >>
       ELSE \E fail \in BOOLEAN, f \in FilesOf(Head(todo)) :
              /\ Fault(fail)
              /\ repeat.on => f = repeat.files[Head(todo)]
              /\ IF ~f.present
                 THEN /\ ~fail
                      /\ Raise("FileNotFoundError")
                      /\ UNCHANGED << scratch, tbl >>
                 ELSE IF fail
                 THEN /\ Raise("transform")
                      /\ scratch' = NoDir
                      /\ tbl' = tbl
                 ELSE /\ scratch' = transform_xml_to_tsv(f.entries)
                      /\ tbl' = 1
                      /\ pc' = "bulk_load"
                      /\ err' = err
    /\ UNCHANGED << db, tx, mode, dataset, release_info, todo, pre,
                    calls, propagated, run_id >>
    /\ UNCHANGED << repeat, evars, tvars >>

\* core.py 206-221: one table of TABLE_LOAD_ORDER, then the finally clause
BulkLoad ==
    /\ pc = "bulk_load"
    /\ IF tbl > Len(TABLE_LOAD_ORDER)
       THEN /\ scratch' = NoDir
            /\ todo' = Tail(todo)
            /\ pc' = "transform"
            /\ UNCHANGED << db, err, faults, tbl, calls >>
       ELSE LET table_name == TABLE_LOAD_ORDER[tbl]
            IN  IF table_name \notin DOMAIN scratch.files
                THEN /\ tbl' = tbl + 1
                     /\ UNCHANGED << db, err, faults, scratch, todo, pc, calls >>
                ELSE \E fail \in BOOLEAN :
                       /\ Fault(fail)
                       /\ LET rows == scratch.files[table_name]
                              ok == ~fail /\ CopyOk(db, table_name, rows)
                          IN  /\ Called("bulk_load", table_name, ok)
                              /\ IF ok
                                 THEN /\ db' = _direct_copy_load(db, table_name, rows)
                                      /\ tbl' = tbl + 1
                                      /\ UNCHANGED << err, scratch, pc >>
                                 ELSE /\ Raise("bulk_load")
                                      /\ scratch' = NoDir
                                      /\ UNCHANGED << db, tbl >>
                       /\ todo' = todo
    /\ UNCHANGED << tx, mode, dataset, release_info, pre, propagated,
                    run_id >>
    /\ UNCHANGED << repeat, evars, tvars >>

\* core.py 130-131
Deduplicate ==
    /\ pc = "deduplicate"
    /\ \E fail \in BOOLEAN :
          /\ Fault(fail)
          /\ Called("deduplicate_staging_data", "taxonomy", ~fail)
          /\ IF fail THEN Raise("deduplicate_staging_data") /\ db' = db
             ELSE /\ db' = deduplicate_staging_data(db, "taxonomy")
                  /\ pc' = StepAfter("deduplicate", mode)
                  /\ err' = err
    /\ tbl' = 1
    /\ UNCHANGED << tx, mode, dataset, release_info, todo, scratch, pre,
                    propagated, run_id >>
    /\ UNCHANGED << repeat, evars, tvars >>

(* ---------------------------------------------------------------------- *)
(* finalize_load: one connection, one transaction, committed at the end    *)
(* ---------------------------------------------------------------------- *)
\* a connection in autocommit mode
AutoCommit(stmt) == TRUE

\* the statements after which the connection commits (conn.commit() closes
\* the with-block of _finalize_full_load and of _finalize_delta_load)
CommitsAfter(stmt) == stmt \in {"full_metadata", "delta_analyze"}

\* a connection that commits when it is closed
RollbackKeepsWork(committed, open) == IF open.active THEN open.d ELSE committed

\* postgres_connection (db_manager.py 30-41): leaving the with-block on an
\* error closes the connection without a commit, which discards the
\* transaction's work; the database is what was last committed
Rollback(committed, open) == committed

LastStatement(stmt) == stmt \in {"full_metadata", "delta_analyze"}

\* one statement of a finalize, working on the transaction's view of the
\* database
Statement(stmt, next, newd) ==
    /\ pc = stmt
    /\ \E fail \in BOOLEAN :
          /\ Fault(fail)
          /\ IF fail
             THEN /\ Raise("finalize_load")
                  /\ tx' = NoTx
                  /\ db' = Rollback(db, tx)
                  /\ Called("finalize_load", mode, FALSE)
             ELSE /\ pc' = IF LastStatement(stmt) THEN StepAfter("finalize_load", mode)
                           ELSE next
                  /\ err' = err
                  /\ db' = IF CommitsAfter(stmt) THEN newd ELSE db
                  /\ tx' = IF LastStatement(stmt) THEN NoTx
                           ELSE [active |-> TRUE, d |-> newd]
                  /\ IF LastStatement(stmt)
                     THEN Called("finalize_load", mode, TRUE)
                     ELSE calls' = calls

\* the database as the finalize's connection sees it
View == IF tx.active THEN tx.d ELSE db

\* a swap that drops the old production schema and keeps no archive
ArchiveProductionDrops(d) == [d EXCEPT !.production = NoSchema]

\* ALTER SCHEMA production RENAME TO production_old_<timestamp>_<uuid>
ArchiveProduction(d) ==
    IF d.production.exists
    THEN [d EXCEPT !.archives = Append(@, d.production), !.production = NoSchema]
    ELSE d

\* ALTER SCHEMA staging RENAME TO production
ActivateStaging(d) == [d EXCEPT !.production = d.staging, !.staging = NoSchema]

FullIndexes ==
    /\ Statement("full_indexes", "full_analyze", [View EXCEPT !.staging.indexed = TRUE])
    /\ UNCHANGED << mode, dataset, release_info, todo, tbl, scratch, pre,
                    propagated, run_id >>
    /\ UNCHANGED << repeat, evars, tvars >>

FullAnalyze ==
    /\ Statement("full_analyze", "full_archive", View)
    /\ UNCHANGED << mode, dataset, release_info, todo, tbl, scratch, pre,
                    propagated, run_id >>
    /\ UNCHANGED << repeat, evars, tvars >>

FullArchive ==
    /\ Statement("full_archive", "full_activate", ArchiveProduction(View))
    /\ UNCHANGED << mode, dataset, release_info, todo, tbl, scratch, pre,
                    propagated, run_id >>
    /\ UNCHANGED << repeat, evars, tvars >>

FullActivate ==
    /\ Statement("full_activate", "full_metadata", ActivateStaging(View))
    /\ UNCHANGED << mode, dataset, release_info, todo, tbl, scratch, pre,
                    propagated, run_id >>
    /\ UNCHANGED << repeat, evars, tvars >>

FullMetadata ==
    /\ Statement("full_metadata", "update_metadata",
                 [View EXCEPT !.production = _create_metadata_tables(@)])
    /\ UNCHANGED << mode, dataset, release_info, todo, tbl, scratch, pre,
                    propagated, run_id >>
    /\ UNCHANGED << repeat, evars, tvars >>

DeltaEnsure ==
    /\ Statement("delta_ensure", "delta_proteins",
                 _create_production_schema_if_not_exists(View))
    /\ UNCHANGED << mode, dataset, release_info, todo, tbl, scratch, pre,
                    propagated, run_id >>
    /\ UNCHANGED << repeat, evars, tvars >>

DeltaProteins ==
    /\ Statement("delta_proteins", "delta_sequences", _upsert_proteins(View))
    /\ UNCHANGED << mode, dataset, release_info, todo, tbl, scratch, pre,
                    propagated, run_id >>
    /\ UNCHANGED << repeat, evars, tvars >>

DeltaSequences ==
    /\ Statement("delta_sequences", "delta_taxonomy", _upsert_sequences(View))
    /\ UNCHANGED << mode, dataset, release_info, todo, tbl, scratch, pre,
                    propagated, run_id >>
    /\ UNCHANGED << repeat, evars, tvars >>

DeltaTaxonomy ==
    /\ Statement("delta_taxonomy", "delta_sync", _upsert_taxonomy(View))
    /\ tbl' = 1
    /\ UNCHANGED << mode, dataset, release_info, todo, scratch, pre,
                    propagated, run_id >>
    /\ UNCHANGED << repeat, evars, tvars >>

\* the five _sync_child_table calls, in the order of _execute_delta_update
DeltaSync ==
    /\ tbl <= Len(ChildTables)
    /\ Statement("delta_sync",
                 IF tbl = Len(ChildTables) THEN "delta_delete" ELSE "delta_sync",
                 _sync_child_table(View, ChildTables[tbl]))
    /\ tbl' = IF pc' = "except" THEN tbl ELSE tbl + 1
    /\ UNCHANGED << mode, dataset, release_info, todo, scratch, pre,
                    propagated, run_id >>
    /\ UNCHANGED << repeat, evars, tvars >>

DeltaDelete ==
    /\ Statement("delta_delete", "delta_analyze", _delete_removed_proteins(View))
    /\ UNCHANGED << mode, dataset, release_info, todo, tbl, scratch, pre,
                    propagated, run_id >>
    /\ UNCHANGED << repeat, evars, tvars >>

DeltaAnalyze ==
    /\ Statement("delta_analyze", "update_metadata", View)
    /\ UNCHANGED << mode, dataset, release_info, todo, tbl, scratch, pre,
                    propagated, run_id >>
    /\ UNCHANGED << repeat, evars, tvars >>

(* ---------------------------------------------------------------------- *)
(* run, continued: metadata, history, the except and finally clauses       *)
(* ---------------------------------------------------------------------- *)
\* core.py 141
UpdateMetadata ==
    /\ pc = "update_metadata"
    /\ \E fail \in BOOLEAN :
          /\ Fault(fail)
          /\ LET ok == ~fail /\ UpdateMetadataOk(db, release_info)
             IN  /\ Called("update_metadata", "", ok)
                 /\ IF ok
                    THEN /\ db' = update_metadata(db, release_info)
                         /\ pc' = StepAfter("update_metadata", mode)
                         /\ err' = err
                    ELSE Raise("update_metadata") /\ db' = db
    /\ UNCHANGED << tx, mode, dataset, release_info, todo, tbl, scratch,
                    pre, propagated, run_id >>
    /\ UNCHANGED << repeat, evars, tvars >>

HistoryRow(status, message) ==
    [ run_id |-> run_id, status |-> status, error_message |-> message ]

\* core.py 146-148; log_run swallows its own errors
LogCompleted ==
    /\ pc = "log_completed"
    /\ \E fail \in BOOLEAN :
          /\ Fault(fail)
          /\ db' = IF fail THEN db ELSE log_run(db, HistoryRow("COMPLETED", NoError))
    /\ Called("log_run", "COMPLETED", TRUE)
    /\ pc' = StepAfter("log_completed", mode)
    /\ UNCHANGED << tx, mode, dataset, release_info, todo, tbl, scratch,
                    pre, err, propagated, run_id >>
    /\ UNCHANGED << repeat, evars, tvars >>

\* core.py 151-166
Except ==
    /\ pc = "except"
    /\ \E fail \in BOOLEAN :
          /\ Fault(fail)
          /\ db' = IF fail THEN db ELSE log_run(db, HistoryRow("FAILED", err))
    /\ calls' = Append(calls, [op |-> "log_run", arg |-> "FAILED", ok |-> TRUE,
                              msg |-> err])
    /\ pc' = "finally"
    /\ UNCHANGED << tx, mode, dataset, release_info, todo, tbl, scratch,
                    pre, err, propagated, run_id >>
    /\ UNCHANGED << repeat, evars, tvars >>

\* core.py 167-171: self.db_adapter.cleanup(); PostgresAdapter and its base
\* class define no attribute of that name, so the call raises AttributeError,
\* which replaces the exception in flight or the pending return
Finally ==
    /\ pc = "finally"
    /\ Called("cleanup", "", FALSE)
    /\ propagated' = "AttributeError"
    /\ pc' = "done"
    /\ UNCHANGED << db, tx, mode, dataset, release_info, todo, tbl,
                    scratch, pre, err, run_id, faults >>
    /\ UNCHANGED << repeat, evars, tvars >>

\* run has returned or raised; the caller may call it again
Return ==
    /\ pc = "done"
    /\ pc' = "idle"
    /\ mode' = "full"
    /\ dataset' = "swissprot"
    /\ release_info' = [version |-> NoVersion]
    /\ todo' = <<>>
    /\ tbl' = 1
    /\ pre' = EmptyDb
    /\ calls' = <<>>
    /\ err' = NoError
    /\ propagated' = NoError
    /\ UNCHANGED << db, tx, scratch, run_id, faults >>
    /\ UNCHANGED << repeat, evars, tvars >>

Next ==
    \/ StartRun \/ Validate \/ GetReleaseInfo \/ VersionCheck
    \/ InitializeSchema \/ Transform \/ BulkLoad \/ Deduplicate
    \/ FullIndexes \/ FullAnalyze \/ FullArchive \/ FullActivate \/ FullMetadata
    \/ DeltaEnsure \/ DeltaProteins \/ DeltaSequences \/ DeltaTaxonomy
    \/ DeltaSync \/ DeltaDelete \/ DeltaAnalyze
    \/ UpdateMetadata \/ LogCompleted \/ Except \/ Finally \/ Return

Spec == Init /\ [][Next]_vars

(* ---------------------------------------------------------------------- *)
(* The same command repeated over the same files                           *)
(* ---------------------------------------------------------------------- *)
\* the commands a caller repeats: run(dataset, mode) with the files that
\* data_dir holds for the datasets of the command
Repeats ==
    { [ on |-> TRUE, mode |-> m, dataset |-> ds,
        files |-> [swissprot |-> fs, trembl |-> ft] ] :
        m \in {"full", "delta"}, ds \in {"swissprot", "trembl", "all"},
        fs \in FilesOf("swissprot"), ft \in FilesOf("trembl") }

RerunInit ==
    /\ PipelineInit
    /\ TransformerIdle
    /\ ParserIdle
    /\ repeat \in { r \in Repeats :
                      /\ r.dataset = "swissprot" => ~r.files.trembl.present
                      /\ r.dataset = "trembl" => ~r.files.swissprot.present }

RerunSpec == RerunInit /\ [][Next]_vars

(* ---------------------------------------------------------------------- *)
(* A run against a database that earlier full loads left                   *)
(* ---------------------------------------------------------------------- *)
RECURSIVE LoadAll(_, _, _)
\* core.py 206-215: the files of a scratch directory loaded in load order
LoadAll(d, files, i) ==
    IF i > Len(TABLE_LOAD_ORDER) THEN d
    ELSE IF TABLE_LOAD_ORDER[i] \in DOMAIN files
    THEN LoadAll(_direct_copy_load(d, TABLE_LOAD_ORDER[i], files[TABLE_LOAD_ORDER[i]]),
                 files, i + 1)
    ELSE LoadAll(d, files, i + 1)

RECURSIVE LoadDatasets(_, _)
\* core.py 125-126: the datasets of the run, one source file each
LoadDatasets(d, sources) ==
    IF sources = <<>> THEN d
    ELSE LoadDatasets(LoadAll(d, transform_xml_to_tsv(Head(sources)).files, 1),
                      Tail(sources))

\* core.py 119-148 without a failure: what a full run over the source files
\* `sources` of its datasets makes of the database d
FullRunOn(d, sources, info, id) ==
    LET staged   == LoadDatasets(initialize_schema(d), sources)
        deduped  == deduplicate_staging_data(staged, "taxonomy")
        indexed  == [deduped EXCEPT !.staging.indexed = TRUE]
        swapped  == ActivateStaging(ArchiveProduction(indexed))
        live     == [swapped EXCEPT !.production = _create_metadata_tables(@)]
        released == update_metadata(live, info)
    IN  log_run(released,
                [run_id |-> id, status |-> "COMPLETED", error_message |-> NoError])

\* the source files of the two earlier loads
EarlierSources ==
    << << [acc |-> "A1", rev |-> 1, taxid |-> 1, sec |-> {}, hasSeq |-> TRUE] >>,
       << [acc |-> "A1", rev |-> 1, taxid |-> 1, sec |-> {}, hasSeq |-> TRUE],
          [acc |-> "A2", rev |-> 1, taxid |-> 1, sec |-> {}, hasSeq |-> TRUE] >> >>

\* the database after two full loads of release "1.0": production holds the
\* second load, one archive holds the first
ArchivedDb ==
    FullRunOn(FullRunOn(EmptyDb, << EarlierSources[1] >>, [version |-> << 1, 0 >>], 0),
              << EarlierSources[2] >>, [version |-> << 1, 0 >>], 1)

\* the database after one full load of release "1.0" with dataset = all:
\* A1 from the Swiss-Prot file, A2 from the TrEMBL file
BothDatasetsDb ==
    FullRunOn(EmptyDb,
              << EarlierSources[1], CHOOSE t \in TremblSources : TRUE >>,
              [version |-> << 1, 0 >>], 0)

\* run is called once, on an empty database or on one that earlier loads left
ArchivedInit ==
    /\ db \in { EmptyDb, ArchivedDb, BothDatasetsDb }
    /\ tx = NoTx
    /\ pc = "idle"
    /\ mode = "full"
    /\ dataset = "swissprot"
    /\ release_info = [version |-> NoVersion]
    /\ todo = <<>>
    /\ tbl = 1
    /\ scratch = NoDir
    /\ pre = EmptyDb
    /\ calls = <<>>
    /\ err = NoError
    /\ propagated = NoError
    /\ run_id = MaxRuns - 1
    /\ faults = 0
    /\ repeat = NoRepeat
    /\ TransformerIdle
    /\ ParserIdle

ArchivedSpec == ArchivedInit /\ [][Next]_vars

(* ---------------------------------------------------------------------- *)
(* transform_xml_to_tsv as processes: producer, worker pool, writer        *)
(* ---------------------------------------------------------------------- *)
MaxEntries == 3

\* the <entry> elements of the source files of a transform: two taxonomy
\* ids, one of them given different names by entries of two accessions
TransformEntries ==
    { e \in Entries : e.acc = "A2" \/ e.rev = 2 }

\* What the producer puts on the tasks queue: the XML string of an entry.
\* "entry" parses; "noacc" has no <accession>, for which _parse_entry
\* returns {}; "syntax" makes etree.fromstring raise XMLSyntaxError;
\* "taxid" carries a non-numeric NCBI Taxonomy id, on which int() raises
\* ValueError
XmlStrings ==
    { [kind |-> "entry", e |-> e] : e \in TransformEntries }
    \cup { [kind |-> k, e |-> NoItem.e] : k \in {"noacc", "syntax", "taxid"} }

RECURSIVE SeqsUpTo(_, _)
\* the sequences over S of length at most n
SeqsUpTo(S, n) ==
    IF n = 0 THEN { <<>> }
    ELSE LET shorter == SeqsUpTo(S, n - 1)
         IN  shorter \cup { Append(q, x) : q \in shorter, x \in S }

\* manager.Queue(maxsize=num_workers_actual * 4)
QueueFactor == 4

\* the entries of TransformEntries in some fixed order
EntryCycle == CHOOSE q \in SeqsOver(TransformEntries) : TRUE

\* a source of n entries that all parse
LongSource(n) ==
    [ k \in 1..n |->
        [kind |-> "entry", e |-> EntryCycle[((k - 1) % Len(EntryCycle)) + 1]] ]

\* every short source and, for each worker count, a source of one entry more
\* than the tasks queue of that many workers holds
XmlSources ==
    SeqsUpTo(XmlStrings, MaxEntries)
    \cup { LongSource(w * QueueFactor + 1) : w \in WorkerIds }

\* the None the producer puts once per worker
Sentinel == [kind |-> "None", e |-> NoItem.e]

\* what a worker puts on the results queue
Parsed(e) == [kind |-> "data", e |-> e]
EmptyDict == [kind |-> "empty", e |-> NoItem.e]

\* a queue without maxsize: put never blocks
TasksQueueUnbounded == FALSE

\* tasks_queue.put blocks while the queue holds maxsize items
TasksQueueFull == Len(tasks_queue) >= num_workers * QueueFactor

\* the roles are started: transformer.py 316-346
StartTransform(source, w) ==
    /\ xml_file = source
    /\ num_workers = w
    /\ total_entries = Len(source)
    /\ tasks_queue = <<>>
    /\ results_queue = <<>>
    /\ loaded = FALSE
    /\ IF Len(source) = 0
       THEN /\ producer = [NoProducer EXCEPT !.pc = "returned"]
            /\ pool = NoPool
            /\ writer = NoWriter
       ELSE /\ producer = [NoProducer EXCEPT !.pc = "put"]
            /\ pool = [state |-> "RUN",
                       workers |-> [ i \in WorkerIds |->
                           [st |-> IF i <= w THEN "get" ELSE "absent",
                            item |-> NoItem] ]]
            /\ writer = [NoWriter EXCEPT !.pc = "running"]

TransformInit ==
    /\ PipelineInit
    /\ ParserIdle
    /\ repeat = NoRepeat
    /\ \E source \in XmlSources, w \in WorkerIds : StartTransform(source, w)

\* an exception leaves the with-block of the Manager: the manager process is
\* shut down and every queue operation of the other roles fails
ManagerShutdown ==
    /\ pool' = [state |-> "TERMINATE",
                workers |-> [ i \in WorkerIds |->
                    [pool.workers[i] EXCEPT
                        !.st = IF @ = "absent" THEN @ ELSE "dead"] ]]
    /\ writer' = [writer EXCEPT !.pc = IF @ = "running" THEN "died" ELSE @]

\* transformer.py 349-360: one <entry> is read and put on the tasks queue;
\* reading the gzip/XML stream may raise
ProducerPut ==
    /\ producer.pc = "put"
    /\ \E fail \in BOOLEAN :
          IF fail
          THEN /\ producer' = [producer EXCEPT !.pc = "raised"]
               /\ ManagerShutdown
               /\ UNCHANGED tasks_queue
          ELSE /\ ~TasksQueueFull
               /\ tasks_queue' = Append(tasks_queue, xml_file[producer.i])
               /\ producer' = [producer EXCEPT
                     !.i = @ + 1,
                     !.pc = IF producer.i = Len(xml_file) THEN "sentinel" ELSE @]
               /\ UNCHANGED << pool, writer >>
    /\ UNCHANGED << xml_file, num_workers, total_entries, results_queue, loaded >>
    /\ UNCHANGED pvars

\* a producer that puts a single None, whatever the number of workers
PutOneSentinel ==
    /\ producer.pc = "sentinel"
    /\ ~TasksQueueFull
    /\ tasks_queue' = Append(tasks_queue, Sentinel)
    /\ producer' = [producer EXCEPT !.sentinels = @ + 1, !.pc = "close"]
    /\ UNCHANGED << xml_file, num_workers, total_entries, results_queue,
                    pool, writer, loaded >>
    /\ UNCHANGED pvars

\* transformer.py 363-364: tasks_queue.put(None), once per worker
PutSentinel ==
    /\ producer.pc = "sentinel"
    /\ ~TasksQueueFull
    /\ tasks_queue' = Append(tasks_queue, Sentinel)
    /\ producer' = [producer EXCEPT
          !.sentinels = @ + 1,
          !.pc = IF producer.sentinels + 1 = num_workers THEN "close" ELSE @]
    /\ UNCHANGED << xml_file, num_workers, total_entries, results_queue,
                    pool, writer, loaded >>
    /\ UNCHANGED pvars

\* transformer.py 367: pool.close()
PoolClose ==
    /\ producer.pc = "close"
    /\ pool' = [pool EXCEPT !.state = "CLOSE"]
    /\ producer' = [producer EXCEPT !.pc = "pool_join"]
    /\ UNCHANGED << xml_file, num_workers, total_entries, tasks_queue,
                    results_queue, writer, loaded >>
    /\ UNCHANGED pvars

\* transformer.py 368: pool.join() returns once every worker process exited
PoolJoin ==
    /\ producer.pc = "pool_join"
    /\ \A i \in WorkerIds : pool.workers[i].st \in {"absent", "exited", "dead"}
    /\ producer' = [producer EXCEPT !.pc = "writer_join"]
    /\ UNCHANGED << xml_file, num_workers, total_entries, tasks_queue,
                    results_queue, pool, writer, loaded >>
    /\ UNCHANGED pvars

\* transformer.py 371-373: writer.join() returns once the writer process
\* exited, with whatever exit code; the function then returns
WriterJoin ==
    /\ producer.pc = "writer_join"
    /\ writer.pc \in {"done", "died"}
    /\ producer' = [producer EXCEPT !.pc = "returned"]
    /\ UNCHANGED << xml_file, num_workers, total_entries, tasks_queue,
                    results_queue, pool, writer, loaded >>
    /\ UNCHANGED pvars

\* _worker_parse_entry, transformer.py 79-82: tasks_queue.get(); None ends
\* the loop, and the pool worker then waits for the pool to be closed
WorkerGet(i) ==
    /\ pool.workers[i].st = "get"
    /\ tasks_queue # <<>>
    /\ tasks_queue' = Tail(tasks_queue)
    /\ pool' = [pool EXCEPT !.workers[i] =
                  IF Head(tasks_queue).kind = "None"
                  THEN [st |-> "pool_loop", item |-> NoItem]
                  ELSE [st |-> "parse", item |-> Head(tasks_queue)]]
    /\ UNCHANGED << xml_file, num_workers, total_entries, results_queue,
                    producer, writer, loaded >>
    /\ UNCHANGED pvars

\* transformer.py 83-93: the entry is parsed and its rows are put on the
\* results queue, {} for an entry without accession (transformer.py 104-106);
\* XMLSyntaxError puts an empty dict too; any other exception
\* (int() of a non-numeric id, transformer.py 175) is not caught and ends the
\* worker process with nothing put
WorkerParse(i) ==
    /\ pool.workers[i].st = "parse"
    /\ LET item == pool.workers[i].item
       IN  CASE item.kind = "entry" ->
                  /\ results_queue' = Append(results_queue, Parsed(item.e))
                  /\ pool' = [pool EXCEPT !.workers[i] = [st |-> "get", item |-> NoItem]]
             [] item.kind \in {"noacc", "syntax"} ->
                  /\ results_queue' = Append(results_queue, EmptyDict)
                  /\ pool' = [pool EXCEPT !.workers[i] = [st |-> "get", item |-> NoItem]]
             [] item.kind = "taxid" ->
                  /\ results_queue' = results_queue
                  /\ pool' = [pool EXCEPT !.workers[i] = [st |-> "dead", item |-> NoItem]]
    /\ UNCHANGED << xml_file, num_workers, total_entries, tasks_queue,
                    producer, writer, loaded >>
    /\ UNCHANGED pvars

\* multiprocessing.Pool replaces a worker process that exited while the pool
\* is running; the new process runs the initializer _worker_parse_entry
\* (transformer.py 338-346)
Repopulate(i) ==
    /\ pool.state = "RUN"
    /\ pool.workers[i].st = "dead"
    /\ pool' = [pool EXCEPT !.workers[i] = [st |-> "get", item |-> NoItem]]
    /\ UNCHANGED << xml_file, num_workers, total_entries, tasks_queue,
                    results_queue, producer, writer, loaded >>
    /\ UNCHANGED pvars

\* after pool.close() a worker whose initializer returned exits
WorkerExit(i) ==
    /\ pool.state = "CLOSE"
    /\ pool.workers[i].st = "pool_loop"
    /\ pool' = [pool EXCEPT !.workers[i].st = "exited"]
    /\ UNCHANGED << xml_file, num_workers, total_entries, tasks_queue,
                    results_queue, producer, writer, loaded >>
    /\ UNCHANGED pvars

\* an exception object on the results queue
ExceptionItem == [kind |-> "exception", e |-> NoItem.e]

\* _writer_process, transformer.py 264-281: one pass of the while loop.  A
\* dict has its rows written; an empty dict is only counted; anything
\* without .items() makes the loop raise AttributeError, as any I/O error
\* does, and the writer process exits, the with-block closing the files.
WriterGet ==
    /\ writer.pc = "running"
    /\ results_queue # <<>>
    /\ results_queue' = Tail(results_queue)
    /\ \E fail \in BOOLEAN :
          LET item == Head(results_queue)
              n    == writer.processed_count + 1
              next == IF n < total_entries THEN "running" ELSE "done"
          IN  IF item.kind = "exception"
              THEN writer' = [writer EXCEPT !.pc = "died", !.error = "AttributeError"]
              ELSE IF fail
              THEN writer' = [writer EXCEPT !.pc = "died", !.error = "OSError"]
              ELSE IF item.kind = "data"
              THEN writer' = [writer EXCEPT !.pc = next, !.processed_count = n,
                                            !.written = Append(@, item.e)]
              ELSE writer' = [writer EXCEPT !.pc = next, !.processed_count = n]
    /\ UNCHANGED << xml_file, num_workers, total_entries, tasks_queue,
                    producer, pool, loaded >>
    /\ UNCHANGED pvars

\* the data rows of the TSV files, in the order the writer wrote them
FilesWritten == [ t \in TABLE_HEADERS |-> WriteRows(writer.written, t, {}) ]

\* core.py 196-215: transform_xml_to_tsv returned, so the driver bulk-loads
\* every file that exists in the scratch directory
LoadFiles ==
    /\ producer.pc = "returned"
    /\ ~loaded
    /\ loaded' = TRUE
    /\ UNCHANGED << xml_file, num_workers, total_entries, tasks_queue,
                    results_queue, producer, pool, writer >>
    /\ UNCHANGED pvars

TransformNext ==
    \/ ProducerPut \/ PutSentinel \/ PoolClose \/ PoolJoin \/ WriterJoin
    \/ \E i \in WorkerIds : WorkerGet(i)
    \/ \E i \in WorkerIds : WorkerParse(i)
    \/ \E i \in WorkerIds : Repopulate(i)
    \/ \E i \in WorkerIds : WorkerExit(i)
    \/ WriterGet
    \/ LoadFiles

TransformSpec == TransformInit /\ [][TransformNext]_vars

\* every role is an OS process of its own and runs whenever it can
TransformLive == TransformSpec /\ WF_vars(TransformNext)

\* _writer_process called on a results queue that already holds its items
ResultItems ==
    { Parsed(e) : e \in TransformEntries } \cup { EmptyDict, ExceptionItem }

WriterInit ==
    /\ PipelineInit
    /\ ParserIdle
    /\ repeat = NoRepeat
    /\ xml_file = <<>>
    /\ num_workers = 1
    /\ results_queue \in SeqsUpTo(ResultItems, MaxEntries) \ { <<>> }
    /\ total_entries = Len(results_queue)
    /\ tasks_queue = <<>>
    /\ producer = NoProducer
    /\ pool = NoPool
    /\ writer = [NoWriter EXCEPT !.pc = "running"]
    /\ loaded = FALSE

WriterNext == WriterGet

WriterSpec == WriterInit /\ [][WriterNext]_vars

(* ---------------------------------------------------------------------- *)
(* _parse_entry on one <entry>: accessions, genes, GO terms, keywords      *)
(* (transformer.py 163-166 and 190-213), then the COPY of its rows         *)
(* ---------------------------------------------------------------------- *)
MaxGenes == 2
MaxNames == 2
MaxRefs == 2

\* the type attribute of a <name> of a <gene>
NameTypes == { "primary", "synonym", "ordered locus", "ORF" }

\* <name type=...>text</name>
GeneNames == [ type : NameTypes, text : { "G1", "G2" } ]

\* a <gene> element: its <name> children in document order
GeneElements == SeqsUpTo(GeneNames, MaxNames)

\* the id attribute of a <dbReference type="GO"> or a <keyword>; "" when
\* the attribute is absent
RefIds == { "", "R1", "R2" }

\* the <accession> children: the primary accession, then the secondary ones
AccessionLists == { <<a>> \o q : a \in Acc, q \in SeqsUpTo(Acc, MaxRefs) }

\* the entries handed to _parse_entry: every list of <gene> elements with one
\* accession, and every list of accessions, GO references and keywords
\* without genes
ParseInputs ==
    { [accession |-> << "A1" >>, gene |-> g, go |-> <<>>, keyword |-> <<>>] :
        g \in SeqsUpTo(GeneElements, MaxGenes) }
    \cup
    { [accession |-> a, gene |-> <<>>, go |-> g, keyword |-> k] :
        a \in AccessionLists,
        g \in SeqsUpTo(RefIds, MaxRefs),
        k \in SeqsUpTo(RefIds, MaxRefs) }

RECURSIVE NameRows(_, _, _)
\* transformer.py 193-200: the inner loop over the <name> children of one
\* <gene>, is_primary being the local flag
NameRows(primary_accession, names, is_primary) ==
    IF names = <<>> THEN <<>>
    ELSE LET name_elem == Head(names)
             row(flag) == [ protein_accession |-> primary_accession,
                            gene_name |-> name_elem.text,
                            is_primary |-> flag ]
         IN  IF name_elem.type = "primary"
             THEN << row(is_primary) >>
                     \o NameRows(primary_accession, Tail(names), FALSE)
             ELSE IF name_elem.type \in { "synonym", "ordered locus" }
             THEN << row(FALSE) >>
                     \o NameRows(primary_accession, Tail(names), is_primary)
             ELSE NameRows(primary_accession, Tail(names), is_primary)

RECURSIVE GeneRows(_, _)
\* transformer.py 190-192: the outer loop; is_primary = True for each <gene>
GeneRows(primary_accession, genes) ==
    IF genes = <<>> THEN <<>>
    ELSE NameRows(primary_accession, Head(genes), TRUE)
            \o GeneRows(primary_accession, Tail(genes))

\* transformer.py 163-166
AccessionRows(accessions) ==
    [ i \in 1..(Len(accessions) - 1) |->
        [ protein_accession |-> accessions[1],
          secondary_accession |-> accessions[i + 1] ] ]

RECURSIVE GoRows(_, _)
\* transformer.py 203-206: a reference without id is skipped
GoRows(primary_accession, refs) ==
    IF refs = <<>> THEN <<>>
    ELSE ( IF Head(refs) # ""
           THEN << [protein_accession |-> primary_accession,
                    go_term_id |-> Head(refs)] >>
           ELSE <<>> )
         \o GoRows(primary_accession, Tail(refs))

RECURSIVE KeywordRows(_, _)
\* transformer.py 209-213: a keyword without id is skipped
KeywordRows(primary_accession, kws) ==
    IF kws = <<>> THEN <<>>
    ELSE ( IF Head(kws) # ""
           THEN << [protein_accession |-> primary_accession,
                    keyword_id |-> Head(kws), keyword_label |-> Head(kws)] >>
           ELSE <<>> )
         \o KeywordRows(primary_accession, Tail(kws))

\* the tables of TABLE_LOAD_ORDER whose rows carry a composite key and come
\* from repeatable children of the entry
KeyedChildTables == << "accessions", "genes", "keywords", "protein_to_go" >>

ParsedTables(e) ==
    [ accessions    |-> AccessionRows(e.accession),
      genes         |-> GeneRows(e.accession[1], e.gene),
      keywords      |-> KeywordRows(e.accession[1], e.keyword),
      protein_to_go |-> GoRows(e.accession[1], e.go) ]

\* the rows have pairwise different primary keys
KeysUnique(table, rows) ==
    \A i, j \in 1..Len(rows) :
        Key(table, rows[i]) = Key(table, rows[j]) => i = j

ParseInit ==
    /\ PipelineInit
    /\ TransformerIdle
    /\ repeat = NoRepeat
    /\ elem \in ParseInputs
    /\ data = NoData

\* _parse_entry(elem, profile)
ParseEntry ==
    /\ data.state = "none"
    /\ data' = [state |-> "parsed", tables |-> ParsedTables(elem), next |-> 1]
    /\ UNCHANGED << elem, tvars >>
    /\ UNCHANGED << db, tx, pc, mode, dataset, release_info, todo, tbl,
                    scratch, pre, calls, err, propagated, run_id, faults,
                    repeat >>

\* core.py 206-215 on the entry's files: COPY of the next keyed table; a
\* repeated key raises UniqueViolation and ends the loop
CopyParsed ==
    /\ data.state = "parsed"
    /\ LET table == KeyedChildTables[data.next]
       IN  IF ~KeysUnique(table, data.tables[table])
           THEN data' = [data EXCEPT !.state = "UniqueViolation"]
           ELSE IF data.next = Len(KeyedChildTables)
           THEN data' = [data EXCEPT !.state = "loaded"]
           ELSE data' = [data EXCEPT !.next = @ + 1]
    /\ UNCHANGED << elem, tvars >>
    /\ UNCHANGED << db, tx, pc, mode, dataset, release_info, todo, tbl,
                    scratch, pre, calls, err, propagated, run_id, faults,
                    repeat >>

ParseNext == ParseEntry \/ CopyParsed

ParseSpec == ParseInit /\ [][ParseNext]_vars


(* ---------------------------------------------------------------------- *)
(* Properties                                                              *)
(* ---------------------------------------------------------------------- *)
Exited == pc = "done"

LoaderOps ==
    { "initialize_schema", "bulk_load", "deduplicate_staging_data",
      "finalize_load", "update_metadata" }

CallsOf(ops) == SelectSeq(calls, LAMBDA c : c.op \in ops)

DataTables(schema) == schema.tables

\* C1: whenever run returns or raises, the staging schema does not exist.
C1_StagingDroppedAtExit == Exited => ~db.staging.exists

\* C2: a run in which a step raised calls log_run exactly once, with FAILED
\* and the text of the error, and raises that same error to its caller; a
\* run in which every step succeeded calls log_run exactly once, with
\* COMPLETED.
C2_FailureLoggedAndReraised ==
    Exited =>
        LET logs == CallsOf({"log_run"})
        IN  /\ err # NoError =>
                /\ Len(logs) = 1
                /\ logs[1].arg = "FAILED"
                /\ logs[1].msg = err
                /\ propagated = err
            /\ (err = NoError /\ CallsOf({"update_metadata"}) # <<>>) =>
                /\ Len(logs) = 1
                /\ logs[1].arg = "COMPLETED"

\* position of a loader call in the order the driver must keep
Rank(c) ==
    CASE c.op = "initialize_schema"        -> 1
      [] c.op = "bulk_load"                -> 2
      [] c.op = "deduplicate_staging_data" -> 3
      [] c.op = "finalize_load"            -> 4
      [] c.op = "update_metadata"          -> 5
      [] c.op = "log_run" /\ c.arg = "COMPLETED" -> 6
      [] OTHER                             -> 0

\* C3: in every run initialize_schema precedes every bulk_load, every
\* bulk_load precedes deduplicate_staging, which precedes finalize, which
\* precedes update_metadata, which precedes log_run(COMPLETED); a later
\* operation starts only after every earlier one completed without error.
C3_LoaderOrder ==
    \A j \in DOMAIN calls :
        Rank(calls[j]) > 0 =>
            /\ \A i \in 1..(j - 1) :
                   Rank(calls[i]) > 0 =>
                       /\ Rank(calls[i]) <= Rank(calls[j])
                       /\ Rank(calls[i]) = Rank(calls[j]) => Rank(calls[j]) = 2
                       /\ calls[i].ok
            /\ \A q \in {1, 3, 4, 5} :
                   q < Rank(calls[j]) =>
                       \E i \in 1..(j - 1) : Rank(calls[i]) = q

C3_Witness ==
    /\ Exited
    /\ dataset = "all"
    /\ Len(CallsOf({"bulk_load"})) = 2 * Cardinality(TABLE_HEADERS)
    /\ \E i \in DOMAIN calls : Rank(calls[i]) = 6

\* the run is a delta whose incoming version equals the production version
EqualVersionDelta ==
    /\ mode = "delta"
    /\ Truthy(release_info.version)
    /\ release_info.version = get_current_release_version(pre)

\* C4: a delta run whose incoming version equals the production version
\* returns normally, calls no loader operation, writes no history row and
\* leaves every schema as it was.
C4_EqualVersionIsNoOp ==
    (Exited /\ EqualVersionDelta /\ err = NoError) =>
        /\ propagated = NoError
        /\ CallsOf(LoaderOps \cup {"log_run"}) = <<>>
        /\ db = pre

\* the run is a delta whose incoming version is older than production's
OlderVersionDelta ==
    /\ mode = "delta"
    /\ Truthy(release_info.version)
    /\ LexLess(release_info.version, get_current_release_version(pre))

\* C5: a delta run whose incoming version is strictly older than the
\* production version raises; initialize_schema, bulk_load, finalize and
\* update_metadata are never called and production data and metadata are
\* unchanged.
C5_OlderVersionRaisesBeforeWrite ==
    (OlderVersionDelta /\ pc # "version_check" /\ err # "OperationalError") =>
        /\ err = "ValueError_older"
        /\ CallsOf(LoaderOps) = <<>>
        /\ DataTables(db.production) = DataTables(pre.production)
        /\ db.production.metadata = pre.production.metadata
        /\ ~db.staging.exists = ~pre.staging.exists
        /\ Exited => propagated # NoError

C5_Witness ==
    /\ Exited
    /\ err = "ValueError_older"
    /\ PrimaryAccessions(db.production) # {}

FullStatements ==
    { "full_indexes", "full_analyze", "full_archive", "full_activate",
      "full_metadata" }

\* what one step of a full-load finalize may do to the committed schemas
FullFinalizeStep ==
    pc \in FullStatements =>
        \/ /\ db'.production = db.production
           /\ db'.archives = db.archives
           /\ db'.staging.exists
           /\ DataTables(db'.staging) = DataTables(db.staging)
        \/ /\ db'.production.exists
           /\ DataTables(db'.production) = DataTables(db.staging)
           /\ ~db'.staging.exists
           /\ db'.archives = IF db.production.exists
                             THEN Append(db.archives, db.production)
                             ELSE db.archives

\* C6: during a full-load finalize every committed step either leaves the
\* schemas as they are or replaces production by the whole of staging, the
\* old production becoming an archive: production is never missing and never
\* without the loaded tables.
C6_SwapIsAtomic == [][FullFinalizeStep]_vars

\* the transaction has renamed production away and not yet renamed staging
C6_Witness ==
    /\ pc = "full_activate"
    /\ tx.active
    /\ ~tx.d.production.exists
    /\ tx.d.staging.exists
    /\ db.production.exists
    /\ PrimaryAccessions(db.production) # {}

\* C7: after a failed full run the production data that existed before the
\* run is intact under the production name or under an archived name, and
\* production is not left renamed away with staging not yet live.
C7_FailedFullKeepsProduction ==
    (Exited /\ mode = "full" /\ err # NoError /\ pre.production.exists) =>
        /\ \/ /\ db.archives = pre.archives
              /\ DataTables(db.production) = DataTables(pre.production)
              /\ db.production.metadata = pre.production.metadata
           \/ /\ db.archives = Append(pre.archives, pre.production)
              /\ db.production.exists
              /\ ~db.staging.exists
        /\ ~tx.active

C7_Witness ==
    /\ Exited
    /\ mode = "full"
    /\ err = "finalize_load"
    /\ PrimaryAccessions(pre.production) # {}
    /\ db.staging.exists
    /\ PrimaryAccessions(db.staging) # PrimaryAccessions(db.production)

\* C8: after a failed delta run every production data table and the
\* metadata table hold exactly the rows they held before the run.
C8_FailedDeltaLeavesProduction ==
    (Exited /\ mode = "delta" /\ err # NoError) =>
        /\ DataTables(db.production) = DataTables(pre.production)
        /\ db.production.metadata = pre.production.metadata

OwnedTables == SetTables \ {"proteins"}

\* C9: after a successful delta finalize the primary accessions of
\* production are those of staging, no child row of a deleted protein is
\* left, and no archived schema was created.
C9_DeltaConservation ==
    (mode = "delta" /\ pc = "update_metadata") =>
        /\ PrimaryAccessions(db.production) = PrimaryAccessions(db.staging)
        /\ \A t \in OwnedTables : \A r \in db.production.tables[t] :
               Owner(t, r) \in PrimaryAccessions(db.staging)
        /\ db.archives = pre.archives

\* a primary accession of production was merged into another entry
C9_Witness ==
    /\ mode = "delta"
    /\ pc = "update_metadata"
    /\ \E a \in PrimaryAccessions(pre.production) :
          /\ a \notin PrimaryAccessions(db.production)
          /\ \E r \in db.production.tables.accessions : r.secondary_accession = a
          /\ \E r \in pre.production.tables.genes : r.protein_accession = a

\* C10: after the delta upserts, for every key present in both staging and
\* production every non-key column of the production row has the staging
\* row's value.
C10_UpsertOverwritesAllColumns ==
    (pc = "delta_sync" /\ tbl = 1 /\ tx.active) =>
        LET stage == tx.d.staging.tables
            prod  == tx.d.production.tables
        IN  /\ \A n \in stage.proteins :
                 n.primary_accession \in PrimaryAccessions(db.production)
                    => n \in prod.proteins
            /\ \A n \in stage.sequences :
                 n.primary_accession \in
                     { o.primary_accession : o \in db.production.tables.sequences }
                    => n \in prod.sequences
            /\ \A n \in Range(stage.taxonomy) :
                 n.ncbi_taxid \in
                     { o.ncbi_taxid : o \in Range(db.production.tables.taxonomy) }
                    => n \in Range(prod.taxonomy)

\* the rows of a child table that belong to one protein
RowsOf(tables, table, a) == { r \in tables[table] : Owner(table, r) = a }

\* C11: after the child-table syncs of a delta, for every protein in
\* staging.proteins the production rows of each child table equal the staging
\* rows of that protein on all columns, and the rows of every protein not in
\* staging.proteins are as they were before the sync.
C11_ChildSyncEqualsStaging ==
    (pc = "delta_delete" /\ tx.active) =>
        \A i \in DOMAIN ChildTables :
            LET t == ChildTables[i]
            IN  \A a \in Acc :
                    IF a \in PrimaryAccessions(tx.d.staging)
                    THEN RowsOf(tx.d.production.tables, t, a)
                            = RowsOf(tx.d.staging.tables, t, a)
                    ELSE RowsOf(tx.d.production.tables, t, a)
                            = RowsOf(db.production.tables, t, a)

\* a run has completed every step, the COMPLETED history row included
Completed ==
    /\ Exited
    /\ err = NoError
    /\ \E i \in DOMAIN calls :
          calls[i].op = "log_run" /\ calls[i].arg = "COMPLETED"

\* C12: after any sequence of successful full and delta runs, production
\* holds exactly one proteins row per primary accession, and every row of
\* sequences, accessions, genes, keywords and protein_to_go references a
\* primary accession that has a proteins row.
C12_ProductionIntegrity ==
    Completed =>
        /\ \A r1, r2 \in db.production.tables.proteins :
               r1.primary_accession = r2.primary_accession => r1 = r2
        /\ \A t \in OwnedTables : \A r \in db.production.tables[t] :
               Owner(t, r) \in PrimaryAccessions(db.production)

\* a successful delta that deleted a protein with child rows and kept another
C12_Witness ==
    /\ Completed
    /\ mode = "delta"
    /\ PrimaryAccessions(pre.production) = Acc
    /\ Cardinality(PrimaryAccessions(db.production)) = 1
    /\ db.production.tables.genes # {}
    /\ db.production.tables.sequences # {}

\* the errors of an invalid mode, an invalid dataset and a missing source file
InputErrors == { "ValueError_mode", "ValueError_dataset", "FileNotFoundError" }

\* C18: a run given an invalid mode, an invalid dataset or a dataset whose
\* source file is missing raises without database work: no schema is created
\* or dropped and no row is inserted in any table.
C18_InputErrorsBeforeDbWork ==
    (Exited /\ err \in InputErrors) => db = pre

\* q is an initial segment of r
IsPrefix(q, r) == Len(q) <= Len(r) /\ \A i \in DOMAIN q : r[i] = q[i]

\* no step removes a row from the production schema's load_history
HistoryKept == IsPrefix(db.production.history, db'.production.history)

\* C19: the run history is append-only across runs: a load_history row
\* written by one run stays in the production schema's load_history table
\* through every later run.
C19_HistoryAppendOnly == [][HistoryKept]_vars

\* C20: a run that fails against a database without a production schema
\* leaves the production schema non-existent; the FAILED history row is
\* written only where the production schema already existed.
C20_FailureCreatesNoProduction ==
    (Exited /\ err # NoError /\ ~pre.production.exists) =>
        ~db.production.exists

\* transform_xml_to_tsv returned to the driver without raising
TransformReturned == producer.pc = "returned" /\ total_entries > 0

\* C13: a source with two entries of one primary accession makes the
\* transformer fail with a duplicate-accession error; transform_xml_to_tsv
\* never completes successfully with two proteins rows for one accession.
C13_DuplicateAccessionFails ==
    TransformReturned =>
        \A i, j \in DOMAIN FilesWritten.proteins :
            FilesWritten.proteins[i].primary_accession
                = FilesWritten.proteins[j].primary_accession => i = j

\* transform_xml_to_tsv creates the two queues and passes nothing else to
\* its roles (transformer.py 324-346): no role has a flag it could set
error_flag == FALSE

\* C14: when the writer pulls an exception from the results queue it sets
\* the shared error flag, and it writes no data row from then on.
C14_ExceptionSetsErrorFlag ==
    writer.error = "AttributeError" => error_flag

\* a worker fails on some entry of the source
WorkerFailure ==
    \E i \in DOMAIN xml_file : xml_file[i].kind \in {"syntax", "taxid"}

AllRolesTerminated ==
    /\ \A i \in WorkerIds : pool.workers[i].st \in {"absent", "exited", "dead"}
    /\ writer.pc \in {"done", "died"}

\* C15: if parsing an entry fails in a worker then, under fair scheduling,
\* the producer, every worker and the writer eventually terminate and
\* transform_xml_to_tsv raises.
C15_WorkerFailureTerminates ==
    WorkerFailure ~> (producer.pc = "raised" /\ AllRolesTerminated)

\* the entries of a source that parse, in file order
EntriesOf(source) ==
    LET q == SelectSeq(source, LAMBDA x : x.kind = "entry")
    IN  [ i \in 1..Len(q) |-> q[i].e ]

\* what one worker yields: results reach the writer in file order
SequentialFiles ==
    [ t \in TABLE_HEADERS |-> WriteRows(EntriesOf(xml_file), t, {}) ]

\* no two entries of the source have the same primary accession
DistinctAccessions ==
    \A i, j \in DOMAIN EntriesOf(xml_file) :
        EntriesOf(xml_file)[i].acc = EntriesOf(xml_file)[j].acc => i = j

\* C16: for a source and a profile, the set of data rows written to each
\* table's file is the same for every worker count and every interleaving
\* of the workers, one worker included.
C16_WorkerCountInvariance ==
    (TransformReturned /\ writer.pc = "done" /\ DistinctAccessions) =>
        \A t \in TABLE_HEADERS :
            Range(FilesWritten[t]) = Range(SequentialFiles[t])

\* C17: the files of a dataset are bulk-loaded only if the transformer
\* completed with every role finished and every entry written; when a
\* role fails or dies the transform counts as failed and nothing is loaded.
C17_LoadOnlyAfterCompleteTransform ==
    (loaded /\ total_entries > 0) =>
        /\ writer.pc = "done"
        /\ Len(writer.written) = total_entries
        /\ \A i \in WorkerIds : pool.workers[i].st # "dead"

\* the entries of the files that the repeated command processes
RepeatedEntries ==
    UNION { Range(repeat.files[ds].entries) :
              ds \in IF repeat.dataset = "all" THEN {"swissprot", "trembl"}
                     ELSE {repeat.dataset} }

\* the second of two runs of one full load: both wrote their COMPLETED row
SecondFullRun ==
    /\ repeat.on
    /\ repeat.mode = "full"
    /\ run_id = 2
    /\ Completed
    /\ \E i \in DOMAIN pre.production.history :
          /\ pre.production.history[i].run_id = 1
          /\ pre.production.history[i].status = "COMPLETED"

EmptySourceRun ==
    /\ Exited
    /\ mode = "full"
    /\ faults = 0
    /\ Truthy(release_info.version)
    /\ CallsOf({"deduplicate_staging_data"}) # <<>>
    /\ CallsOf({"bulk_load"}) = <<>>

\* what a completed run over empty sources leaves in the database
EmptyLoadCommitted ==
    /\ err = NoError
    /\ db.production.exists
    /\ DataTables(db.production) = EmptyTables
    /\ ~db.staging.exists
    /\ db.production.metadata = << [version |-> release_info.version] >>
    /\ db.production.history = << HistoryRow("COMPLETED", NoError) >>

\* C22: a full run over a source with zero entries completes successfully:
\* no data row is loaded, the empty staging becomes production, the metadata
\* row carries the run's version, a COMPLETED history row is written and run
\* returns without raising.
C22_EmptySourceCompletes ==
    EmptySourceRun => (EmptyLoadCommitted /\ propagated = NoError)

\* what a step may do to the committed production metadata table
MetadataStep ==
    /\ Len(db'.production.metadata) <= 1
    /\ (pc = "update_metadata" /\ pc' = "except") =>
           db'.production.metadata = db.production.metadata
    /\ (pc = "update_metadata" /\ pc' # "except") =>
           db'.production.metadata = << [version |-> release_info.version] >>
    /\ (pc = "finally" /\ Completed') =>
           db'.production.metadata = << [version |-> release_info.version] >>

\* C23: the committed production metadata table never holds more than one
\* row; update_metadata replaces the row by the release of the run in one
\* transaction, a failed update_metadata leaving the table as it was; after
\* every successful run the one row carries the version of that run.
C23_MetadataSingleRow == [][MetadataStep]_vars

\* a delta run replaced the metadata row of an earlier release
C23_Witness ==
    /\ Completed
    /\ mode = "delta"
    /\ Len(pre.production.metadata) = 1
    /\ Len(db.production.metadata) = 1
    /\ db.production.metadata # pre.production.metadata

\* the driver has gone through the load order for a dataset whose
\* transform wrote files
DatasetLoaded ==
    /\ pc = "bulk_load"
    /\ tbl > Len(TABLE_LOAD_ORDER)
    /\ DOMAIN scratch.files # {}

\* C24: for a dataset over a non-empty source, after the transformer bulk_load
\* is called once for every table of the load order taxonomy, proteins,
\* sequences, accessions, genes, keywords, protein_to_go,
\* protein_to_taxonomy, in that order, and no table of the list is skipped.
C24_EveryTableLoadedInOrder ==
    DatasetLoaded =>
        LET loads == CallsOf({"bulk_load"})
            n == Len(TABLE_LOAD_ORDER)
        IN  /\ Len(loads) >= n
            /\ \A k \in 1..n :
                   loads[Len(loads) - n + k].arg = TABLE_LOAD_ORDER[k]

\* every entry of the source parses
NoParseFailure ==
    /\ total_entries > 0
    /\ \A i \in DOMAIN xml_file : xml_file[i].kind \in {"entry", "noacc"}

\* the producer returned, every worker exited and the writer left its loop
\* having counted every entry
TransformFinished ==
    /\ producer.pc = "returned"
    /\ \A i \in 1..num_workers : pool.workers[i].st = "exited"
    /\ writer.pc = "done"
    /\ writer.processed_count = total_entries

\* reading the source or writing a file failed
IoFailure == producer.pc = "raised" \/ writer.error = "OSError"

\* C25: for every worker count and every number of entries, more than the
\* tasks queue holds included, when no entry fails to parse the transform
\* eventually terminates under fair scheduling with the producer, every
\* worker and the writer finished and the writer having consumed one result
\* per entry.
C25_TransformTerminates == NoParseFailure ~> (TransformFinished \/ IoFailure)

\* more entries than the queue holds went through and everything finished
C25_Witness ==
    /\ TransformFinished
    /\ num_workers = MaxWorkers
    /\ total_entries > QueueFactor * num_workers
    /\ Len(writer.written) = total_entries

\* C26: the tasks queue never holds more than 4 * num_workers items,
\* entries and sentinels together; the producer puts an item only when the
\* queue is not full.
C26_TasksQueueBounded == Len(tasks_queue) <= QueueFactor * num_workers

\* the producer has an entry to put and waits for a worker to take one
C26_Witness ==
    /\ producer.pc = "put"
    /\ Len(tasks_queue) = QueueFactor * num_workers
    /\ num_workers = MaxWorkers

SentinelsQueued ==
    Cardinality({ k \in DOMAIN tasks_queue : tasks_queue[k].kind = "None" })

\* the workers that took a sentinel and left their loop
SentinelsTaken ==
    Cardinality({ i \in WorkerIds : pool.workers[i].st \in {"pool_loop", "exited"} })

\* no worker process is running or about to be replaced
WorkersStopped ==
    /\ pool.state # "TERMINATE"
    /\ total_entries > 0
    /\ \A i \in 1..num_workers :
          \/ pool.workers[i].st \in {"pool_loop", "exited"}
          \/ pool.workers[i].st = "dead" /\ pool.state = "CLOSE"

\* C27: the producer puts exactly num_workers sentinels, all after the last
\* entry; a worker stops after taking one sentinel and takes no second one;
\* when every worker has stopped the tasks queue is empty and every entry
\* that was put has been taken.
C27_SentinelProtocol ==
    /\ producer.sentinels <= num_workers
    /\ producer.sentinels > 0 => producer.i = Len(xml_file) + 1
    /\ \A j, k \in DOMAIN tasks_queue :
          (j < k /\ tasks_queue[j].kind = "None") => tasks_queue[k].kind = "None"
    /\ SentinelsTaken + SentinelsQueued = producer.sentinels
    /\ WorkersStopped =>
          /\ tasks_queue = <<>>
          /\ producer.sentinels = num_workers
          /\ SentinelsTaken = num_workers

\* the one item a worker owes the results queue for an XML string
Answer(item) ==
    CASE item.kind = "entry" -> Parsed(item.e)
      [] item.kind = "noacc" -> EmptyDict
      [] OTHER               -> ExceptionItem

\* a worker that is done with an XML string has put its answer and is back
\* at tasks_queue.get()
WorkerAnswerStep ==
    \A i \in WorkerIds :
        ( /\ pool.workers[i].st = "parse"
          /\ pool'.workers[i].st # "parse"
          /\ pool'.state # "TERMINATE" ) =>
            /\ results_queue' = Append(results_queue, Answer(pool.workers[i].item))
            /\ pool'.workers[i].st = "get"

\* C28: for every entry a worker takes from the tasks queue it puts exactly
\* one item on the results queue: the parsed rows, an empty result for an
\* entry without primary accession, or the exception when parsing fails
\* with an XML syntax error or a value error; a worker never drops an entry
\* and never dies leaving it unanswered.
C28_OneAnswerPerEntry == [][WorkerAnswerStep]_vars

\* how often x occurs in the sequence q
Count(q, x) == Cardinality({ k \in DOMAIN q : q[k] = x })

\* the writer wrote the rows of every entry that parsed once, and of nothing
\* else
EveryEntryWrittenOnce ==
    \A e \in TransformEntries :
        Count(writer.written, e) = Count(EntriesOf(xml_file), e)

\* C29: in a transform that completes successfully every entry that parsed
\* is seen by the writer exactly once, its rows written exactly once, none
\* lost and none written twice, for every worker count and interleaving.
C29_EveryEntryWrittenOnce == TransformReturned => EveryEntryWrittenOnce

\* the taxonomy ids of the entries whose rows the writer wrote
TaxidsWritten == { writer.written[k].taxid : k \in DOMAIN writer.written }

\* the first result the writer received for a taxonomy id
FirstWith(taxid) ==
    writer.written[CHOOSE k \in DOMAIN writer.written :
                      /\ writer.written[k].taxid = taxid
                      /\ \A j \in 1..(k - 1) : writer.written[j].taxid # taxid]

\* C30: within one transformer run, for every worker count and arrival
\* order, the taxonomy file holds at most one row per ncbi_taxid, the row of
\* the first result the writer received for it, and holds a row for every
\* taxonomy id of a written entry.
C30_TaxonomyOneRowPerTaxid ==
    LET tax == FilesWritten.taxonomy
    IN  /\ \A j, k \in DOMAIN tax : tax[j].ncbi_taxid = tax[k].ncbi_taxid => j = k
        /\ { tax[k].ncbi_taxid : k \in DOMAIN tax } = TaxidsWritten
        /\ \A k \in DOMAIN tax :
               tax[k] = _parse_entry(FirstWith(tax[k].ncbi_taxid), "taxonomy")[1]

\* two workers; results of both taxonomy ids arrived, one id twice with
\* different names, and not in the order of the file
C30_Witness ==
    /\ writer.pc = "done"
    /\ num_workers = MaxWorkers
    /\ Len(writer.written) = MaxEntries
    /\ Len(FilesWritten.taxonomy) = 2
    /\ writer.written # EntriesOf(xml_file)
    /\ \E j, k \in DOMAIN writer.written :
          /\ writer.written[j].taxid = writer.written[k].taxid
          /\ writer.written[j].rev # writer.written[k].rev

(* ---------------------------------------------------------------------- *)
(* De-duplication of staging (db_manager.py 182-210, core.py 128-131)      *)
(* ---------------------------------------------------------------------- *)
\* a step of deduplicate_staging_data that returned
DeduplicateReturned ==
    /\ pc = "deduplicate"
    /\ pc' \notin {"deduplicate", "except"}

\* position of the physically first row of q with the key k
FirstRowOf(q, k) ==
    CHOOSE i \in 1..Len(q) :
        /\ q[i].ncbi_taxid = k
        /\ \A j \in 1..(i - 1) : q[j].ncbi_taxid # k

C31_DedupStep ==
    DeduplicateReturned =>
        LET old  == db.staging.tables.taxonomy
            new  == db'.staging.tables.taxonomy
            keys == { old[i].ncbi_taxid : i \in 1..Len(old) }
        IN  /\ Len(new) = Cardinality(keys)
            /\ \A k \in keys :
                  \E i \in 1..Len(new) :
                     /\ new[i] = old[FirstRowOf(old, k)]
                     /\ \A j \in 1..Len(new) : new[j].ncbi_taxid = k => j = i
            /\ \A t \in DOMAIN db.staging.tables \ {"taxonomy"} :
                  db'.staging.tables[t] = db.staging.tables[t]
            /\ db'.production = db.production
            /\ db'.archives = db.archives
            /\ deduplicate_staging_data(db', "taxonomy") = db'
            /\ pc' \in {"full_indexes", "delta_ensure"}

\* C31: a call of deduplicate_staging_data that returns leaves, for every
\* key the staging table held, exactly one row, the physically first one of
\* that key, changes no other table, and a second call would remove
\* nothing; the finalize that follows starts with unique ncbi_taxid in
\* staging.taxonomy.
C31_DeduplicateStaging == [][C31_DedupStep]_vars

\* a run over both datasets whose sources name one taxonomy id differently:
\* both proteins are staged, one taxonomy row is left, the one of the
\* Swiss-Prot file, which was loaded first
C31_Witness ==
    /\ pc \in {"full_indexes", "delta_ensure"}
    /\ dataset = "all"
    /\ PrimaryAccessions(db.staging) = Acc
    /\ \A r \in db.staging.tables.proteins : r.ncbi_taxid = 1
    /\ Len(db.staging.tables.taxonomy) = 1
    /\ \E r \in db.staging.tables.proteins :
          /\ r.primary_accession = "A1"
          /\ r.uniprot_id = 2
          /\ db.staging.tables.taxonomy[1].scientific_name = 2

(* ---------------------------------------------------------------------- *)
(* Order of the delta merge (db_manager.py 303-332)                        *)
(* ---------------------------------------------------------------------- *)
DeltaSteps ==
    { "delta_ensure", "delta_proteins", "delta_sequences", "delta_taxonomy",
      "delta_sync", "delta_delete", "delta_analyze" }

\* position of a statement in _finalize_delta_load; t is the child table a
\* sync is about to process
DeltaRank(p, t) ==
    CASE p = "delta_ensure"    -> 0
      [] p = "delta_proteins"  -> 1
      [] p = "delta_sequences" -> 2
      [] p = "delta_taxonomy"  -> 3
      [] p = "delta_sync"      -> 3 + t
      [] p = "delta_delete"    -> 4 + Len(ChildTables)
      [] p = "delta_analyze"   -> 5 + Len(ChildTables)
      [] OTHER                 -> 6 + Len(ChildTables)

\* every child row of the schema has its protein
ChildRowsOwned(schema) ==
    \A i \in 1..Len(ChildTables) :
        \A r \in schema.tables[ChildTables[i]] :
            Owner(ChildTables[i], r) \in PrimaryAccessions(schema)

C32_DeltaStep ==
    (pc \in DeltaSteps /\ pc' # "except") =>
        /\ DeltaRank(pc', tbl') = DeltaRank(pc, tbl) + 1
        /\ pc' \notin DeltaSteps => pc' = "update_metadata"
        /\ pc' \in DeltaSteps =>
              /\ tx'.active
              /\ ChildRowsOwned(tx'.d.production)
              \* the syncs find every staged parent in production
              /\ DeltaRank(pc', tbl') > 3 =>
                    /\ PrimaryAccessions(tx'.d.staging)
                           \subseteq PrimaryAccessions(tx'.d.production)
                    /\ \A r \in tx'.d.staging.tables.sequences :
                          \E o \in tx'.d.production.tables.sequences :
                             o.primary_accession = r.primary_accession
                    /\ \A i \in 1..Len(tx'.d.staging.tables.taxonomy) :
                          \E j \in 1..Len(tx'.d.production.tables.taxonomy) :
                             tx'.d.production.tables.taxonomy[j].ncbi_taxid
                                = tx'.d.staging.tables.taxonomy[i].ncbi_taxid
              \* nothing is deleted from proteins before the tombstone step
              /\ DeltaRank(pc', tbl') <= 4 + Len(ChildTables) =>
                    PrimaryAccessions(db.production)
                       \subseteq PrimaryAccessions(tx'.d.production)
        /\ pc = "delta_delete" =>
              PrimaryAccessions(tx'.d.production) = PrimaryAccessions(tx.d.staging)
        /\ pc = "delta_analyze" => db' = tx.d

\* C32: the statements of a delta finalize run in the order protein,
\* sequence and taxonomy upsert, the child syncs, tombstone deletion,
\* ANALYZE; in every intermediate state of the transaction each child row
\* of production has its protein in production, the syncs start with every
\* staged parent in production, and tombstone deletion removes no protein
\* that staging holds.
C32_DeltaOrder == [][C32_DeltaStep]_vars

\* a delta whose transaction added a child row of a protein new to
\* production and deleted a protein that staging does not hold
C32_Witness ==
    /\ pc = "delta_analyze"
    /\ tx.active
    /\ \E r \in tx.d.production.tables.accessions :
          r.protein_accession \notin PrimaryAccessions(db.production)
    /\ PrimaryAccessions(db.production) \ PrimaryAccessions(tx.d.production) # {}
    /\ PrimaryAccessions(tx.d.staging) # {}

(* ---------------------------------------------------------------------- *)
(* Errors of log_run and cleanup (db_manager.py 510-528, core.py 151-171)  *)
(* ---------------------------------------------------------------------- *)
\* C33: what run raises to its caller is the error of the step that failed,
\* and nothing when no step failed: neither log_run nor cleanup puts an
\* error of its own in its place.
C33_LogAndCleanupSwallow == Exited => propagated = err

(* ---------------------------------------------------------------------- *)
(* Rows of one entry (transformer.py 163-166, 190-213)                     *)
(* ---------------------------------------------------------------------- *)
\* the entry has a <name type="primary"> in some <gene>
HasPrimaryName(e) ==
    \E i \in 1..Len(e.gene) : \E j \in 1..Len(e.gene[i]) :
        e.gene[i][j].type = "primary"

\* the gene names of the entry whose type is one of `types`, in document order
RECURSIVE NamesOfTypes(_, _)
NamesOfTypes(genes, types) ==
    IF genes = <<>> THEN <<>>
    ELSE SelectSeq(Head(genes), LAMBDA n : n.type \in types)
            \o NamesOfTypes(Tail(genes), types)

\* C34: among the gene rows of one entry exactly one has is_primary = True
\* when the entry has a name of type primary and none otherwise, whatever
\* the number of <gene> elements and of primary names; there is one row per
\* name of type primary, synonym or ordered locus, in document order, the
\* rows of synonyms and ordered loci have is_primary = False, and names of
\* other types yield no row.
C34_OnePrimaryGene ==
    data.state # "none" =>
        LET rows  == data.tables.genes
            names == NamesOfTypes(elem.gene, {"primary", "synonym", "ordered locus"})
            prim  == { i \in 1..Len(rows) : rows[i].is_primary }
        IN  /\ Cardinality(prim) = IF HasPrimaryName(elem) THEN 1 ELSE 0
            /\ Len(rows) = Len(names)
            /\ \A i \in 1..Len(rows) :
                  /\ rows[i].gene_name = names[i].text
                  /\ names[i].type # "primary" => ~rows[i].is_primary

\* C39: the rows of one entry have pairwise different keys in accessions,
\* genes, keywords and protein_to_go, also when the entry repeats a gene
\* name, a keyword id, a GO reference or a secondary accession, so that the
\* COPY of the entry's rows raises no unique violation.
C39_EntryKeysUnique ==
    data.state # "none" =>
        /\ \A i \in 1..Len(KeyedChildTables) :
              KeysUnique(KeyedChildTables[i], data.tables[KeyedChildTables[i]])
        /\ data.state # "UniqueViolation"

(* ---------------------------------------------------------------------- *)
(* Version monotonicity of delta runs (core.py 98-115)                     *)
(* ---------------------------------------------------------------------- *)
C35_VersionStep ==
    (mode = "delta" /\ Truthy(release_info.version)) =>
        LET old == get_current_release_version(db)
            new == get_current_release_version(db')
        IN  /\ Truthy(old) => Truthy(new)
            /\ new # old =>
                  /\ pc = "update_metadata"
                  /\ new = release_info.version
                  /\ Truthy(old) => LexLess(old, new)
            /\ (pc \in DeltaSteps \/ pc' \in DeltaSteps) =>
                  ( ~Truthy(old) \/ LexLess(old, release_info.version) )

\* C35: in a delta run whose release has a version, the version in the
\* production metadata is never lost, changes only in update_metadata, only
\* to the version of the release and only to a version strictly greater, as
\* strings, than the one before; the statements of the delta finalize run
\* only while production has no version or a version strictly less than the
\* release's.
C35_VersionMonotonic == [][C35_VersionStep]_vars

\* a delta run replaced the version "1.0" of the run before by "2"
C35_Witness ==
    /\ mode = "delta"
    /\ pc = "log_completed"
    /\ get_current_release_version(pre) = << 1, 0 >>
    /\ get_current_release_version(db) = << 2 >>
    /\ \E i \in DOMAIN calls : calls[i].op = "finalize_load" /\ calls[i].ok

(* ---------------------------------------------------------------------- *)
(* Archived schemas (db_manager.py 242-266)                                *)
(* ---------------------------------------------------------------------- *)
\* the full-load swap committed in this step
SwapCommitted == pc = "full_metadata" /\ pc' = "update_metadata"

C36_ArchiveStep ==
    /\ IsPrefix(db.archives, db'.archives)
    /\ db'.archives # db.archives =>
          /\ mode = "full"
          /\ SwapCommitted
          /\ db'.archives = Append(db.archives, db.production)
    /\ SwapCommitted =>
          Len(db'.archives) = Len(db.archives)
                                 + (IF db.production.exists THEN 1 ELSE 0)

\* C36: no step of a run drops, renames or changes an archived schema; an
\* archive is added only by the commit of a full-load swap, which adds
\* exactly one, the production schema as it was, when production existed,
\* and none when it did not.
C36_ArchivesRetained == [][C36_ArchiveStep]_vars

\* a completed full run against the database two loads left: the archive
\* of the first load is still there, followed by the second load's
\* production
C36_Witness ==
    /\ Completed
    /\ mode = "full"
    /\ pre = ArchivedDb
    /\ Len(db.archives) = 2
    /\ db.archives = Append(ArchivedDb.archives, ArchivedDb.production)
    /\ PrimaryAccessions(db.archives[1]) = { "A1" }

(* ---------------------------------------------------------------------- *)
(* Production data and metadata (core.py 134-142)                          *)
(* ---------------------------------------------------------------------- *)
C37_DataMetadataStep ==
    LET before == get_current_release_version(db)
        after  == get_current_release_version(db')
    IN  /\ (Truthy(before) /\ after = before /\ Truthy(release_info.version)) =>
              DataTables(db'.production) = DataTables(db.production)
        /\ (Truthy(after) /\ after # before) =>
              \E i \in DOMAIN calls :
                  calls[i].op = "finalize_load" /\ calls[i].ok

\* C37: the committed production data changes only together with the
\* version in the production metadata: no commit of a run whose release has
\* a version changes the data tables
\* while the metadata names the same release before and after it, and the
\* metadata comes to name a release only when that run's finalize has
\* committed its data.
C37_DataMatchesMetadata == [][C37_DataMetadataStep]_vars

(* ---------------------------------------------------------------------- *)
(* Sequences after a delta (db_manager.py 352-361)                         *)
(* ---------------------------------------------------------------------- *)
\* C38: when a delta finalize has committed, production.sequences holds
\* exactly the rows of staging.sequences; a protein of both releases whose
\* incoming entry has no sequence has no sequence row in production.
C38_SequencesEqualStaging ==
    (mode = "delta" /\ pc = "update_metadata") =>
        /\ db.production.tables.sequences = db.staging.tables.sequences
        /\ \A a \in PrimaryAccessions(db.staging) :
              (\A r \in db.staging.tables.sequences : r.primary_accession # a)
                 => \A o \in db.production.tables.sequences :
                        o.primary_accession # a

(* ---------------------------------------------------------------------- *)
(* Tombstones and the dataset of the run (db_manager.py 402-425)           *)
(* ---------------------------------------------------------------------- *)
\* C40: when a delta finalize has committed, every protein production held
\* before the run whose accession is not in staging is gone, whatever
\* dataset the run processed and whatever dataset had brought the protein;
\* a delta whose staging holds no protein leaves production without
\* proteins.
C40_TombstonesIgnoreDataset ==
    (mode = "delta" /\ pc = "update_metadata") =>
        /\ \A a \in PrimaryAccessions(pre.production) :
              a \notin PrimaryAccessions(db.staging)
                 => a \notin PrimaryAccessions(db.production)
        /\ PrimaryAccessions(db.staging) = {}
              => db.production.tables.proteins = {}

\* a delta with dataset = swissprot over an empty source, against a
\* production loaded with dataset = all: the Swiss-Prot protein and the
\* TrEMBL protein are both gone
C40_Witness ==
    /\ mode = "delta"
    /\ dataset = "swissprot"
    /\ pc = "update_metadata"
    /\ pre = BothDatasetsDb
    /\ PrimaryAccessions(pre.production) = Acc
    /\ CallsOf({"bulk_load"}) = <<>>
    /\ db.production.tables.proteins = {}

====
